---- MODULE Spec2Model ----
(***************************************************************************)
(* A model of the UtopiaOS kernel memory bootstrap:                        *)
(*   - the region placement engine (meet_request) and the available-memory *)
(*     enumerator (transform_avm) of unsynchronized_memory_manager,        *)
(*   - the conversion of a firmware memory map into a kernel memory map,   *)
(*   - the buddy_resource block allocator.                                 *)
(* Addresses and sizes are unsigned integers of AddrBits bits; every       *)
(* addition, subtraction and multiplication of the source wraps.           *)
(***************************************************************************)
EXTENDS Integers, Naturals, Sequences, FiniteSets, TLC

(***************************************************************************)
(* Bounds of the model.                                                    *)
(***************************************************************************)
\* width of std::uintptr_t and std::size_t in the model
AddrBits == 24
\* largest number of descriptors in a kernel memory map
MaxDescs == 2
\* largest number of regions in an occupied memory description
MaxOmd == 2
\* largest number of callback invocations of transform_avm that are recorded
MaxAvRegions == MaxDescs * (MaxOmd + 1) + 1

(***************************************************************************)
(* Program constants.                                                      *)
(***************************************************************************)
\* log2 of UTOPIAOS_KERNEL_PAGESIZE
PageBits == 12

Modulus == 2 ^ AddrBits
UintMax == Modulus - 1
pagesize == 2 ^ PageBits

\* unsigned arithmetic of the machine word
Wrap(x) == x % Modulus
Add(a, b) == Wrap(a + b)
Sub(a, b) == Wrap(a - b + Modulus)
Mul(a, b) == Wrap(a * b)

Max(a, b) == IF a >= b THEN a ELSE b

(***************************************************************************)
(* target::memory_region                                                   *)
(***************************************************************************)
Region(s, z) == [start |-> s, size |-> z]

base(r) == r.start
top(r) == Add(r.start, r.size)

\* self.intersects_memory_region( region )
intersects_memory_region(self, region) ==
    IF base(region) < base(self)
    THEN top(region) > base(self)
    ELSE base(region) < top(self)

\* target::align<ALIGN>( ptr ), ALIGN a power of two
align(ALIGN, ptr) ==
    LET diff == ptr % ALIGN
    IN  IF diff = 0 THEN ptr ELSE Add(ptr, ALIGN - diff)

(***************************************************************************)
(* kernel::memory_descriptor                                               *)
(***************************************************************************)
Desc(t, ps, vs, np) ==
    [type |-> t, physical_start |-> ps, virtual_start |-> vs,
     number_of_pages |-> np]

invalid_memory_descriptor == Desc("invalid", 0, 0, 0)

validate(md) ==
    /\ ~ ((UintMax \div pagesize) < md.number_of_pages)
    /\ ~ (Sub(UintMax, Mul(pagesize, md.number_of_pages)) < md.physical_start)
    /\ ~ (Sub(UintMax, Mul(pagesize, md.number_of_pages)) < md.virtual_start)
    /\ md.number_of_pages # 0

is_valid(md) == md.type # "invalid"

contains_memory_region(md, region) ==
    /\ base(region) >= md.virtual_start
    /\ top(region) <= Add(md.virtual_start, Mul(pagesize, md.number_of_pages))

(***************************************************************************)
(* unsynchronized_memory_manager::meet_request                             *)
(***************************************************************************)
\* std::find_if( intersection, omd_end, bind( intersects_memory_region, self, _1 ) ):
\* index of the first region of occupied at or after position intersection
\* that self intersects, or Len(occupied) + 1
find_intersection(self, occupied, intersection) ==
    LET hits == {j \in intersection..Len(occupied) :
                    intersects_memory_region(self, occupied[j])}
    IN  IF hits = {} THEN Len(occupied) + 1
        ELSE CHOOSE j \in hits : \A k \in hits : j <= k

\* the region meet_request tries at an aligned address
Attempt(aligned_address, request) ==
    Region(aligned_address, Add(aligned_address, request.size))

CannotMeet == [found |-> FALSE, region |-> Region(0, 0), desc |-> 0]

\* the while loop of meet_request over the intersecting occupied regions
RECURSIVE meet_in_descriptor(_, _, _, _, _)
meet_in_descriptor(desc, occupied, request, attempt, intersection) ==
    LET found == find_intersection(attempt, occupied, intersection)
    IN  IF found > Len(occupied)
        THEN [found |-> TRUE, region |-> attempt]
        ELSE LET aligned_address == align(request.alignment, top(occupied[found]))
                 next == Attempt(aligned_address, request)
             IN  IF ~ contains_memory_region(desc, next)
                 THEN [found |-> FALSE, region |-> next]
                 ELSE meet_in_descriptor(desc, occupied, request, next, found + 1)

\* the for loop of meet_request over the descriptors, from index desc_it
RECURSIVE meet_from(_, _, _, _)
meet_from(map, occupied, request, desc_it) ==
    IF desc_it > Len(map) THEN CannotMeet
    ELSE LET desc == map[desc_it]
             attempt == Attempt(align(request.alignment, desc.virtual_start), request)
         IN  IF ~ contains_memory_region(desc, attempt)
             THEN meet_from(map, occupied, request, desc_it + 1)
             ELSE LET r == meet_in_descriptor(desc, occupied, request, attempt, 1)
                  IN  IF r.found
                      THEN [found |-> TRUE, region |-> r.region, desc |-> desc_it]
                      ELSE meet_from(map, occupied, request, desc_it + 1)

meet_request(map, occupied, request) == meet_from(map, occupied, request, 1)

\* utils::sorted_range_insert_reference( range, ref )
sorted_range_insert_reference(range, ref) ==
    LET notless == {j \in 1..Len(range) : ~ (range[j].start < ref.start)}
        larger == IF notless = {} THEN Len(range) + 1
                  ELSE CHOOSE j \in notless : \A k \in notless : j <= k
    IN  SubSeq(range, 1, larger - 1) \o <<ref>> \o SubSeq(range, larger, Len(range))

(***************************************************************************)
(* State.                                                                  *)
(***************************************************************************)
VARIABLES
    memmap,        \* placement: the kernel memory map (exposed descriptors)
    omd,           \* placement: the occupied memory description
    request,       \* placement: the last memory request made
    placed,        \* placement: what meet_request returned for it
    pl_pc,         \* placement: position of the caller
    desc_it,       \* transform_avm: index of the current descriptor
    rest,          \* transform_avm: the part of the descriptor still to scan
    intersection,  \* transform_avm: position in the omd
    av_regions,    \* transform_avm: the regions passed to the callback so far
    uefi_map,      \* conversion: the firmware memory map
    stage1_descriptors, \* conversion: the descriptor array being sanitised
    endValid,      \* conversion: index one past the valid descriptors
    lower,         \* conversion: index of the merge loop
    conv_pc,       \* conversion: position in convert_from_uefi
    descriptors,   \* conversion: memory_map::descriptors, the exposed map
    bcfg,          \* buddy: the constructor arguments
    mem,           \* buddy: the memory of the upstream resource, by block info
    free_block_lists, \* buddy: head of the free list of every level
    upstream_blocks,  \* buddy: number of top-level blocks taken from upstream
    lists_memory,  \* buddy: block_lists_memory, where the free lists are kept
    outstanding,   \* buddy: the allocations the user holds
    bd_pc,         \* buddy: position of the user of the resource
    bd_ops,        \* buddy: number of operations made on the resource
    bd_mark,       \* buddy: the run of allocations going on, the free lists before it
    bd_last,       \* buddy: the last call of allocate and how it ended
    bd_dtor,       \* buddy: the loops of the destructor and what it gave upstream
    bm_pc,         \* build_memory_manager: position in the function
    caller_omd,    \* build_memory_manager: the occupied list of the caller
    internal_omds, \* build_memory_manager: the regions placed so far
    dr_upstreams,  \* distributed: the upstream resources, capacity and use
    dr_resources,  \* distributed: the container of upstream pointers
    dr_words,      \* distributed: the index words stored behind the blocks
    dr_out,        \* distributed: the blocks the user holds
    dr_log,        \* distributed: the deallocate calls forwarded so far
    dr_pc,         \* distributed: position of the user of the resource
    env,           \* environment: the environment_v1 record and where it lies
    env_omd,       \* environment: the occupied regions computed so far
    env_pc         \* environment: position in setup_memory_manager

placeVars == <<memmap, omd, request, placed, pl_pc, desc_it, rest,
               intersection, av_regions>>

mapVars == <<uefi_map, stage1_descriptors, endValid, lower, conv_pc, descriptors>>

buddyVars == <<bcfg, mem, free_block_lists, upstream_blocks, lists_memory,
               outstanding, bd_pc, bd_ops, bd_mark, bd_last, bd_dtor>>

buildVars == <<bm_pc, caller_omd, internal_omds>>

distVars == <<dr_upstreams, dr_resources, dr_words, dr_out, dr_log, dr_pc>>

envVars == <<env, env_omd, env_pc>>

vars == <<placeVars, mapVars, buddyVars, buildVars, distVars, envVars>>

\* what the steps of one part of the model leave alone
notPlace == <<mapVars, buddyVars, buildVars, distVars, envVars>>
notMap == <<placeVars, buddyVars, buildVars, distVars, envVars>>
notBuddy == <<placeVars, mapVars, buildVars, distVars, envVars>>
notBuild == <<mapVars, buddyVars, distVars, envVars>>
notDist == <<placeVars, mapVars, buddyVars, buildVars, envVars>>
notEnv == <<placeVars, mapVars, buddyVars, buildVars, distVars>>

\* no environment is looked at
IdleEnv ==
    /\ env = <<>>
    /\ env_omd = <<>>
    /\ env_pc = "off"

\* no distributed_resource is constructed
IdleDist ==
    /\ dr_upstreams = <<>>
    /\ dr_resources = <<>>
    /\ dr_words = <<>>
    /\ dr_out = <<>>
    /\ dr_log = <<>>
    /\ dr_pc = "off"

\* build_memory_manager is not running
IdleBuild ==
    /\ bm_pc = "off"
    /\ caller_omd = <<>>
    /\ internal_omds = <<>>

nullptr == 0

\* the destructor is not running
NotDestroying == [level |-> 0, current |-> 0, returned |-> <<>>, spin |-> 0]

\* allocate has not been called
NoCall == [bytes |-> 0, outcome |-> "none", level |-> 0]

\* no buddy_resource is constructed
IdleBuddy ==
    /\ bcfg = [min_block_size |-> 0, max_block_size |-> 0, tlp_alignment |-> 0]
    /\ mem = <<>>
    /\ free_block_lists = <<>>
    /\ upstream_blocks = 0
    /\ lists_memory = nullptr
    /\ outstanding = <<>>
    /\ bd_pc = "off"
    /\ bd_ops = 0
    /\ bd_mark = [lists |-> <<>>, phase |-> "other", run |-> <<>>]
    /\ bd_last = NoCall
    /\ bd_dtor = NotDestroying

\* the conversion is not running
IdleMap ==
    /\ uefi_map = <<>>
    /\ stage1_descriptors = <<>>
    /\ endValid = 0
    /\ lower = 0
    /\ conv_pc = "off"
    /\ descriptors = <<>>

(***************************************************************************)
(* Inputs of the placement engine and of the enumerator.                   *)
(***************************************************************************)
\* virtual start addresses of the descriptors tried
LowBase == 256 * pagesize
HighBase == Modulus \div 2
DescBases == {0, LowBase, HighBase}
DescPages == {1, 4}
DescTypes == {"general_purpose", "unusable"}

InputDescs ==
    {md \in {Desc(t, b, b, n) : t \in DescTypes, b \in DescBases, n \in DescPages} :
        validate(md)}

desc_end(md) == md.virtual_start + pagesize * md.number_of_pages

\* kernel memory maps: valid descriptors, ascending, not overlapping
InputMaps ==
    {m \in UNION {[1..n -> InputDescs] : n \in 0..MaxDescs} :
        \A i \in 1..(Len(m) - 1) : desc_end(m[i]) <= m[i + 1].virtual_start}

RegionStarts ==
    {0, pagesize, LowBase, LowBase + pagesize, LowBase + 2 * pagesize, HighBase}
RegionSizes == {0, 100, pagesize, 2 * pagesize}

\* everything above the first page up to a few bytes below the top of the
\* address space
UpperSpace == Region(pagesize, Modulus - pagesize - 100)

InputRegions ==
    {Region(s, z) : s \in RegionStarts, z \in RegionSizes} \cup {UpperSpace}

\* occupied memory descriptions: sorted by start (std::is_sorted)
InputOmds ==
    {o \in UNION {[1..n -> InputRegions] : n \in 0..MaxOmd} :
        \A i \in 1..(Len(o) - 1) : ~ (o[i + 1].start < o[i].start)}

InputRequests ==
    {[size |-> pagesize, alignment |-> pagesize], [size |-> 16, alignment |-> 8]}

NoRequest == [size |-> 0, alignment |-> 1]

(***************************************************************************)
(* Placement: meet_request and the sorted insert of the placement loop.    *)
(***************************************************************************)
InitPlace ==
    /\ IdleDist
    /\ IdleBuild
    /\ IdleEnv
    /\ IdleMap
    /\ IdleBuddy
    /\ memmap \in InputMaps
    /\ omd \in InputOmds
    /\ request = NoRequest
    /\ placed = CannotMeet
    /\ pl_pc = "idle"
    /\ desc_it = 0
    /\ rest = Region(0, 0)
    /\ intersection = 0
    /\ av_regions = <<>>

\* meet_request( memmap, omd, req ) returns a region
MeetRequest(req) ==
    /\ pl_pc = "idle"
    /\ meet_request(memmap, omd, req).found
    /\ request' = req
    /\ placed' = meet_request(memmap, omd, req)
    /\ pl_pc' = "placed"
    /\ UNCHANGED notPlace
    /\ UNCHANGED <<memmap, omd, desc_it, rest, intersection, av_regions>>

\* meet_request( memmap, omd, req ) throws std::runtime_error
MeetRequestThrows(req) ==
    /\ pl_pc = "idle"
    /\ ~ meet_request(memmap, omd, req).found
    /\ request' = req
    /\ placed' = CannotMeet
    /\ pl_pc' = "cannot_meet"
    /\ UNCHANGED notPlace
    /\ UNCHANGED <<memmap, omd, desc_it, rest, intersection, av_regions>>

\* the placement loop records the region as occupied
InsertPlaced ==
    /\ pl_pc = "placed"
    /\ Len(omd) < MaxOmd
    /\ omd' = sorted_range_insert_reference(omd, placed.region)
    /\ pl_pc' = "idle"
    /\ UNCHANGED notPlace
    /\ UNCHANGED <<memmap, request, placed, desc_it, rest, intersection, av_regions>>

(***************************************************************************)
(* unsynchronized_memory_manager::transform_avm, one loop iteration per    *)
(* step; av_regions collects the arguments of the callback.                *)
(***************************************************************************)
desc_region(desc) ==
    Region(desc.virtual_start, Mul(desc.number_of_pages, pagesize))

Emit(r, d) == [start |-> r.start, size |-> r.size, desc |-> d]

AvmBegin ==
    /\ pl_pc = "idle"
    /\ pl_pc' = "avm_desc"
    /\ desc_it' = 1
    /\ av_regions' = <<>>
    /\ UNCHANGED notPlace
    /\ UNCHANGED <<memmap, omd, request, placed, rest, intersection>>

\* a descriptor that is not general purpose is skipped
AvmSkipDesc ==
    /\ pl_pc = "avm_desc"
    /\ desc_it <= Len(memmap)
    /\ memmap[desc_it].type # "general_purpose"
    /\ desc_it' = desc_it + 1
    /\ UNCHANGED notPlace
    /\ UNCHANGED <<memmap, omd, request, placed, pl_pc, rest, intersection, av_regions>>

AvmEnterDesc ==
    /\ pl_pc = "avm_desc"
    /\ desc_it <= Len(memmap)
    /\ memmap[desc_it].type = "general_purpose"
    /\ rest' = desc_region(memmap[desc_it])
    /\ intersection' = 1
    /\ pl_pc' = "avm_scan"
    /\ UNCHANGED notPlace
    /\ UNCHANGED <<memmap, omd, request, placed, desc_it, av_regions>>

\* one iteration of the while loop: an occupied region intersects rest
AvmIntersection ==
    /\ pl_pc = "avm_scan"
    /\ Len(av_regions) < MaxAvRegions
    /\ LET found == find_intersection(rest, omd, intersection)
       IN  /\ found <= Len(omd)
           /\ intersection' = found
           /\ av_regions' =
                IF base(rest) # base(omd[found])
                THEN Append(av_regions,
                            Emit(Region(base(rest), Sub(base(omd[found]), base(rest))),
                                 desc_it))
                ELSE av_regions
           /\ IF top(omd[found]) > top(rest)
              THEN /\ rest' = Region(top(rest), 0)
                   /\ pl_pc' = "avm_tail"
              ELSE /\ rest' = Region(top(omd[found]),
                                     Sub(rest.size, Sub(top(omd[found]), base(rest))))
                   /\ pl_pc' = "avm_scan"
    /\ UNCHANGED notPlace
    /\ UNCHANGED <<memmap, omd, request, placed, desc_it>>

\* the while loop is left; what remains of the descriptor is passed on
AvmTail ==
    /\ \/ pl_pc = "avm_tail"
       \/ /\ pl_pc = "avm_scan"
          /\ find_intersection(rest, omd, intersection) > Len(omd)
    /\ Len(av_regions) < MaxAvRegions
    /\ av_regions' =
         IF base(rest) # top(desc_region(memmap[desc_it]))
         THEN Append(av_regions,
                     Emit(Region(base(rest),
                                 Sub(top(desc_region(memmap[desc_it])), base(rest))),
                          desc_it))
         ELSE av_regions
    /\ desc_it' = desc_it + 1
    /\ pl_pc' = "avm_desc"
    /\ UNCHANGED notPlace
    /\ UNCHANGED <<memmap, omd, request, placed, rest, intersection>>

AvmEnd ==
    /\ pl_pc = "avm_desc"
    /\ desc_it > Len(memmap)
    /\ pl_pc' = "avm_done"
    /\ UNCHANGED notPlace
    /\ UNCHANGED <<memmap, omd, request, placed, desc_it, rest, intersection, av_regions>>

NextPlace ==
    \/ \E req \in InputRequests : MeetRequest(req)
    \/ \E req \in InputRequests : MeetRequestThrows(req)
    \/ InsertPlaced
    \/ AvmBegin
    \/ AvmSkipDesc
    \/ AvmEnterDesc
    \/ AvmIntersection
    \/ AvmTail
    \/ AvmEnd

SpecPlace == InitPlace /\ [][NextPlace]_vars

\* transform_avm alone, run to its end: a call that has been entered goes
\* on executing
TransformSteps ==
    \/ AvmSkipDesc
    \/ AvmEnterDesc
    \/ AvmIntersection
    \/ AvmTail
    \/ AvmEnd

NextTransform ==
    \/ AvmBegin
    \/ TransformSteps

SpecTransform == InitPlace /\ [][NextTransform]_vars /\ WF_vars(TransformSteps)

(***************************************************************************)
(* unsynchronized_memory_manager::build_memory_manager.  The available     *)
(* regions are counted by the steps of transform_avm above; then one       *)
(* region is placed per memory tag and one for the internal resources.     *)
(***************************************************************************)
\* sizeof(memory_descriptor): type, physical_start, virtual_start, number_of_pages
SizeofMemoryDescriptor == 32
\* sizeof(target::memory_region): start, size
SizeofMemoryRegion == 16
\* sizeof(std::pmr::monotonic_buffer_resource)
SizeofIResource == 64
\* alignof of the three types above
AlignofWord == 8
\* boost::hana::length( memory_tags )
NumberOfTags == 3

number_of_memory_requests == NumberOfTags + 1

MemoryRequest(size, alignment) == [size |-> size, alignment |-> alignment]

\* the request made for the tag-th placement; the last one is iresource_request
build_request(tag) ==
    IF tag = 1
    THEN MemoryRequest(Mul(Len(memmap), SizeofMemoryDescriptor), AlignofWord)
    ELSE IF tag = 2
    THEN MemoryRequest(Mul(SizeofMemoryRegion,
                           Add(Len(caller_omd), number_of_memory_requests)),
                       AlignofWord)
    ELSE IF tag = 3
    THEN MemoryRequest(Mul(Add(number_of_memory_requests, Len(av_regions)),
                           SizeofIResource),
                       AlignofWord)
    ELSE MemoryRequest(Mul(NumberOfTags, SizeofIResource), AlignofWord)

\* the sanity check: every occupied region lies in a descriptor of the map
OmdContained ==
    \A i \in 1..Len(omd) :
        \E d \in 1..Len(memmap) : contains_memory_region(memmap[d], omd[i])

InitBuild ==
    /\ IdleDist
    /\ IdleEnv
    /\ IdleMap
    /\ IdleBuddy
    /\ memmap \in InputMaps
    /\ omd \in InputOmds
    /\ request = NoRequest
    /\ placed = CannotMeet
    /\ pl_pc = "off"
    /\ desc_it = 0
    /\ rest = Region(0, 0)
    /\ intersection = 0
    /\ av_regions = <<>>
    /\ bm_pc = "begin"
    /\ caller_omd = omd
    /\ internal_omds = <<>>

\* the sanity check throws std::invalid_argument
BuildSanityThrows ==
    /\ bm_pc = "begin"
    /\ ~ OmdContained
    /\ bm_pc' = "invalid_argument"
    /\ UNCHANGED <<caller_omd, internal_omds>>
    /\ UNCHANGED placeVars
    /\ UNCHANGED notBuild

\* the sanity check passes; number_of_avm_regions starts transform_avm
BuildBegin ==
    /\ bm_pc = "begin"
    /\ OmdContained
    /\ bm_pc' = "count"
    /\ pl_pc' = "idle"
    /\ UNCHANGED <<caller_omd, internal_omds>>
    /\ UNCHANGED <<memmap, omd, request, placed, desc_it, rest, intersection, av_regions>>
    /\ UNCHANGED notBuild

\* transform_avm has returned: the memory requests are known
BuildRequests ==
    /\ bm_pc = "count"
    /\ pl_pc = "avm_done"
    /\ bm_pc' = "place"
    /\ pl_pc' = "build"
    /\ UNCHANGED <<caller_omd, internal_omds>>
    /\ UNCHANGED <<memmap, omd, request, placed, desc_it, rest, intersection, av_regions>>
    /\ UNCHANGED notBuild

\* one placement: meet_request against the omd extended so far, then the
\* sorted insert of the region found
BuildPlace ==
    /\ bm_pc = "place"
    /\ LET tag == Len(internal_omds) + 1
           r == meet_request(memmap, omd, build_request(tag))
       IN  /\ r.found
           /\ request' = build_request(tag)
           /\ placed' = r
           /\ internal_omds' = Append(internal_omds, r.region)
           /\ omd' = sorted_range_insert_reference(omd, r.region)
           /\ bm_pc' = IF tag = number_of_memory_requests THEN "done" ELSE "place"
    /\ UNCHANGED <<caller_omd, memmap, pl_pc, desc_it, rest, intersection, av_regions>>
    /\ UNCHANGED notBuild

\* meet_request throws std::runtime_error out of build_memory_manager
BuildCannotMeet ==
    /\ bm_pc = "place"
    /\ LET tag == Len(internal_omds) + 1
       IN  /\ ~ meet_request(memmap, omd, build_request(tag)).found
           /\ request' = build_request(tag)
    /\ placed' = CannotMeet
    /\ bm_pc' = "cannot_meet"
    /\ UNCHANGED <<caller_omd, internal_omds>>
    /\ UNCHANGED <<memmap, omd, pl_pc, desc_it, rest, intersection, av_regions>>
    /\ UNCHANGED notBuild

NextBuild ==
    \/ BuildSanityThrows
    \/ BuildBegin
    \/ AvmBegin
    \/ AvmSkipDesc
    \/ AvmEnterDesc
    \/ AvmIntersection
    \/ AvmTail
    \/ AvmEnd
    \/ BuildRequests
    \/ BuildPlace
    \/ BuildCannotMeet

SpecBuild == InitBuild /\ [][NextBuild]_vars

(***************************************************************************)
(* Conversion of a firmware memory map: memory_map::convert_from_uefi.     *)
(***************************************************************************)
\* log2 of UEFI::pagesize
UEFIPageBits == 12
UEFIpagesize == 2 ^ UEFIPageBits

UefiDesc(t, ps, vs, np) ==
    [type |-> t, physical_start |-> ps, virtual_start |-> vs,
     number_of_pages |-> np]

\* memory_descriptor( const UEFI::memory_descriptor_v1 & )
from_uefi(uefi_desc) ==
    LET md == Desc(IF uefi_desc.type = "EfiConventionalMemory"
                   THEN "general_purpose" ELSE "unusable",
                   uefi_desc.physical_start,
                   uefi_desc.virtual_start,
                   Mul(uefi_desc.number_of_pages, UEFIpagesize) \div pagesize)
    IN  IF validate(md) THEN md ELSE [md EXCEPT !.type = "invalid"]

\* memory_descriptor( t, ps, vs, np ): the constructor throws when the
\* fields do not validate
Threw == [threw |-> TRUE, md |-> Desc("invalid", 0, 0, 0)]
construct(t, ps, vs, np) ==
    IF validate(Desc(t, ps, vs, np))
    THEN [threw |-> FALSE, md |-> Desc(t, ps, vs, np)]
    ELSE Threw

\* memory_descriptor::invalid_memory_descriptor()
make_invalid_memory_descriptor == construct("invalid", 0, 0, 0)

have_overlap(md1, md2) ==
    Add(md1.virtual_start, Mul(pagesize, md1.number_of_pages)) > md2.virtual_start

merge_with_overlap(md1, md2) ==
    IF md1.type # md2.type
    THEN make_invalid_memory_descriptor
    ELSE LET size_before_overlap == Sub(md2.virtual_start, md1.virtual_start)
             physical_start2 == Add(md1.physical_start, size_before_overlap)
             end1 == Add(md1.virtual_start, Mul(pagesize, md1.number_of_pages))
             end2 == Add(md2.virtual_start, Mul(pagesize, md2.number_of_pages))
             end == Max(end1, end2)
         IN  IF md2.physical_start # physical_start2
             THEN make_invalid_memory_descriptor
             ELSE construct(md1.type, md1.physical_start, md1.virtual_start,
                            Sub(end, md1.virtual_start) \div pagesize)

are_adjacent_and_mergable(md1, md2) ==
    LET end1 == Add(md1.virtual_start, Mul(pagesize, md1.number_of_pages))
    IN  /\ md1.type = md2.type
        /\ Add(md1.physical_start, Sub(end1, md1.virtual_start)) = md2.physical_start
        /\ end1 = md2.virtual_start

merge_adjacent(md1, md2) ==
    LET end == Add(md2.virtual_start, Mul(pagesize, md2.number_of_pages))
    IN  construct(md1.type, md1.physical_start, md1.virtual_start,
                  Sub(end, md1.virtual_start) \div pagesize)

Swap(s, i, j) == [s EXCEPT ![i] = s[j], ![j] = s[i]]

\* std::partition( first, last, is_valid ) on bidirectional iterators:
\* the first invalid element from the left is exchanged with the last valid
\* element from the right; last is one past the range
RECURSIVE partition(_, _, _)
RECURSIVE partition_back(_, _, _)
partition(s, first, last) ==
    IF first = last THEN [arr |-> s, mid |-> first]
    ELSE IF is_valid(s[first]) THEN partition(s, first + 1, last)
    ELSE partition_back(s, first, last - 1)
partition_back(s, first, last) ==
    IF first = last THEN [arr |-> s, mid |-> first]
    ELSE IF ~ is_valid(s[last]) THEN partition_back(s, first, last - 1)
    ELSE partition(Swap(s, first, last), first + 1, last)

\* the results std::sort may give for the comparison on virtual_start
\* (the order of equal keys is not specified)
Sorted(s) ==
    {t \in {[i \in 1..Len(s) |-> s[p[i]]] :
                p \in {q \in [1..Len(s) -> 1..Len(s)] :
                          \A i, j \in 1..Len(s) : i # j => q[i] # q[j]}} :
        \A i \in 1..(Len(t) - 1) : ~ (t[i + 1].virtual_start < t[i].virtual_start)}

\* the all-zero bit pattern read as a memory_descriptor
ZeroDesc == Desc("general_purpose", 0, 0, 0)

\* what the slots of a freshly allocated descriptor buffer may hold before
\* anything is constructed in them
StaleKinds == {"zero", "converted"}
Stale(kind, uefi, i) ==
    IF kind = "zero" THEN ZeroDesc ELSE from_uefi(uefi[i - 1])

\* dynarray( first, last, alloc ): every element is constructed at
\* buffer[0], the other slots keep what the buffer held
dynarray_from_range(src, stale) ==
    [i \in 1..Len(src) |-> IF i = 1 THEN src[Len(src)] ELSE stale[i]]

(***************************************************************************)
(* Inputs of the conversion.                                               *)
(***************************************************************************)
\* largest number of descriptors in a firmware memory map
MaxUefi == 3

InputUefiDescs ==
    {UefiDesc("EfiConventionalMemory", 0, 0, 1),
     UefiDesc("EfiConventionalMemory", 0, 0, 2),
     UefiDesc("EfiConventionalMemory", pagesize, pagesize, 1),
     UefiDesc("EfiConventionalMemory", 2 * pagesize, 2 * pagesize, 1),
     UefiDesc("EfiReservedMemoryType", pagesize, pagesize, 1),
     UefiDesc("EfiConventionalMemory", 3 * pagesize, pagesize, 1),
     UefiDesc("EfiConventionalMemory", pagesize, pagesize, 0),
     UefiDesc("EfiConventionalMemory", pagesize, pagesize, Modulus \div pagesize),
     UefiDesc("EfiConventionalMemory", pagesize, pagesize, Modulus \div pagesize + 1)}

InputUefiMaps == UNION {[1..n -> InputUefiDescs] : n \in 0..MaxUefi}

\* the placement engine is not running
IdlePlace ==
    /\ memmap = <<>>
    /\ omd = <<>>
    /\ request = NoRequest
    /\ placed = CannotMeet
    /\ pl_pc = "off"
    /\ desc_it = 0
    /\ rest = Region(0, 0)
    /\ intersection = 0
    /\ av_regions = <<>>

InitMap ==
    /\ IdleDist
    /\ IdleBuild
    /\ IdleEnv
    /\ IdlePlace
    /\ IdleBuddy
    /\ uefi_map \in InputUefiMaps
    /\ stage1_descriptors = <<>>
    /\ endValid = 0
    /\ lower = 0
    /\ conv_pc = "construct"
    /\ descriptors = <<>>

\* desc_array stage1_descriptors( cbegin_v1(), cend_v1(), alloc )
ConvConstruct(kind) ==
    /\ conv_pc = "construct"
    /\ stage1_descriptors' =
         dynarray_from_range([i \in 1..Len(uefi_map) |-> from_uefi(uefi_map[i])],
                             [i \in 1..Len(uefi_map) |-> Stale(kind, uefi_map, i)])
    /\ conv_pc' = "partition"
    /\ UNCHANGED <<uefi_map, endValid, lower, descriptors>>
    /\ UNCHANGED notMap

\* endValid = std::partition( begin, end, is_valid )
ConvPartition ==
    /\ conv_pc = "partition"
    /\ LET r == partition(stage1_descriptors, 1, Len(stage1_descriptors) + 1)
       IN  /\ stage1_descriptors' = r.arr
           /\ endValid' = r.mid
    /\ conv_pc' = "sort"
    /\ UNCHANGED <<uefi_map, lower, descriptors>>
    /\ UNCHANGED notMap

\* std::sort( begin, end, by virtual_start ) and the loop initialisation
ConvSort ==
    /\ conv_pc = "sort"
    /\ stage1_descriptors' \in Sorted(stage1_descriptors)
    /\ lower' = 1
    /\ conv_pc' = "merge"
    /\ UNCHANGED <<uefi_map, endValid, descriptors>>
    /\ UNCHANGED notMap

\* the loop condition holds and upper is not endValid
InLoop ==
    /\ conv_pc = "merge"
    /\ lower # endValid
    /\ lower + 1 # endValid

\* loop body: the two descriptors overlap and are merged into md2
ConvOverlap ==
    /\ InLoop
    /\ have_overlap(stage1_descriptors[lower], stage1_descriptors[lower + 1])
    /\ LET r == merge_with_overlap(stage1_descriptors[lower],
                                   stage1_descriptors[lower + 1])
       IN  /\ ~ r.threw
           /\ stage1_descriptors' =
                IF r.md.type = "invalid"
                THEN [stage1_descriptors EXCEPT ![lower + 1] = r.md,
                                                ![lower].type = "invalid"]
                ELSE [stage1_descriptors EXCEPT ![lower + 1] = r.md]
    /\ lower' = lower + 2
    /\ UNCHANGED <<uefi_map, endValid, conv_pc, descriptors>>
    /\ UNCHANGED notMap

\* loop body: the descriptors are adjacent and mergable
ConvAdjacent ==
    /\ InLoop
    /\ ~ have_overlap(stage1_descriptors[lower], stage1_descriptors[lower + 1])
    /\ are_adjacent_and_mergable(stage1_descriptors[lower],
                                 stage1_descriptors[lower + 1])
    /\ LET r == merge_adjacent(stage1_descriptors[lower],
                               stage1_descriptors[lower + 1])
       IN  /\ ~ r.threw
           /\ stage1_descriptors' = [stage1_descriptors EXCEPT ![lower + 1] = r.md]
    /\ lower' = lower + 2
    /\ UNCHANGED <<uefi_map, endValid, conv_pc, descriptors>>
    /\ UNCHANGED notMap

\* loop body: a memory_descriptor constructor throws std::invalid_argument
ConvThrows ==
    /\ InLoop
    /\ LET md1 == stage1_descriptors[lower]
           md2 == stage1_descriptors[lower + 1]
       IN  \/ have_overlap(md1, md2) /\ merge_with_overlap(md1, md2).threw
           \/ /\ ~ have_overlap(md1, md2)
              /\ are_adjacent_and_mergable(md1, md2)
              /\ merge_adjacent(md1, md2).threw
    /\ conv_pc' = "threw"
    /\ UNCHANGED <<uefi_map, stage1_descriptors, endValid, lower, descriptors>>
    /\ UNCHANGED notMap

\* loop body: neither overlapping nor mergable
ConvAdvance ==
    /\ InLoop
    /\ ~ have_overlap(stage1_descriptors[lower], stage1_descriptors[lower + 1])
    /\ ~ are_adjacent_and_mergable(stage1_descriptors[lower],
                                   stage1_descriptors[lower + 1])
    /\ lower' = lower + 1
    /\ UNCHANGED <<uefi_map, stage1_descriptors, endValid, conv_pc, descriptors>>
    /\ UNCHANGED notMap

\* the loop ends; the array is partitioned again and its valid prefix kept
ConvFinish ==
    /\ conv_pc = "merge"
    /\ lower = endValid \/ lower + 1 = endValid
    /\ LET r == partition(stage1_descriptors, 1, Len(stage1_descriptors) + 1)
       IN  /\ stage1_descriptors' = r.arr
           /\ endValid' = r.mid
           /\ descriptors' = SubSeq(r.arr, 1, r.mid - 1)
    /\ conv_pc' = "done"
    /\ UNCHANGED <<uefi_map, lower>>
    /\ UNCHANGED notMap

NextMap ==
    \/ \E kind \in StaleKinds : ConvConstruct(kind)
    \/ ConvPartition
    \/ ConvSort
    \/ ConvOverlap
    \/ ConvAdjacent
    \/ ConvThrows
    \/ ConvAdvance
    \/ ConvFinish

SpecMap == InitMap /\ [][NextMap]_vars


(***************************************************************************)
(* kernel::buddy_resource.                                                 *)
(* Memory is kept per block info: mem maps the address of every place a    *)
(* memory_block_info can lie at to the three words found there.  Block     *)
(* flags are the set of the positions of the bits that are set.            *)
(***************************************************************************)
\* sizeof(detail::memory_block_info): block_flags, previous, next
SizeofBlockInfo == 24
\* alignof(std::max_align_t)
max_align == 16
\* sizeof(detail::memory_block_info *)
SizeofPtr == 8

inverse_padding == SizeofBlockInfo % max_align
padding == (max_align - inverse_padding) % max_align
min_allowed_block_size == 2 * (SizeofBlockInfo + padding)

\* utils::msb( val ): the number of bits needed to write val
RECURSIVE msb(_)
msb(val) == IF val = 0 THEN 0 ELSE 1 + msb(val \div 2)

max_num_allowed_block_levels == msb(UintMax) - 1

\* the bit of block_flags that marks a free block
FreeBit == msb(UintMax) - 1

\* ((x - 1) & x) != 0
NotPowerOfTwo(x) == x # 0 /\ \A k \in 0..AddrBits : x # 2 ^ k

block_size_at_level(level, min_msb_) == 2 ^ (level + min_msb_ - 1)

min_msb == msb(bcfg.min_block_size)
max_msb == msb(bcfg.max_block_size)
max_block_level == Sub(max_msb, min_msb)
num_block_levels == Add(max_block_level, 1)
top_level_block_alignment == Max(bcfg.tlp_alignment, max_align)
block_lists_size == Mul(num_block_levels, SizeofPtr)

\* largest number of top-level blocks the upstream resource can hand out
NumTop == 2

\* the upstream resource hands out top-level blocks from here on
ArenaBase == bcfg.max_block_size

\* the addresses a memory_block_info is read or written at
InfoAddresses(cfg) ==
    {cfg.max_block_size + (SizeofBlockInfo + padding) * k :
        k \in 0..((NumTop * cfg.max_block_size) \div (SizeofBlockInfo + padding) - 1)}

BlockInfo(f, p, n) == [block_flags |-> f, previous |-> p, next |-> n]
ZeroInfo == BlockInfo({}, nullptr, nullptr)
OnesInfo == BlockInfo(0..(AddrBits - 1), UintMax, UintMax)

\* what memory fresh from the upstream resource can hold
GarbageInfos == {ZeroInfo, OnesInfo}

is_free(info) == FreeBit \in info.block_flags
is_first(info, level) == level \in info.block_flags
is_second(info, level) == ~is_first(info, level)

\* block->buddy( level, min_msb ), info the words at block
buddy(info, block, level) ==
    LET block_size == block_size_at_level(level, min_msb)
    IN  IF is_first(info, level)
        THEN Add(block, block_size \div 2)
        ELSE Sub(block, block_size \div 2)

\* block->data()
data(block) == align(max_align, Add(block, SizeofBlockInfo))

(* The state of the resource while a member function runs: the memory, the *)
(* free lists, the number of top-level blocks taken from upstream, and     *)
(* st: "ok", "bad_alloc" once std::bad_alloc is thrown, "fault" once a     *)
(* store or load went through a pointer that refers to no memory.          *)
Heap == [mem |-> mem, lists |-> free_block_lists, top |-> upstream_blocks, st |-> "ok"]

Ok(H) == H.st = "ok"
Fault(H) == [H EXCEPT !.st = "fault"]
Mapped(H, a) == a \in DOMAIN H.mem

SetInfo(H, a, info) ==
    IF ~Ok(H) THEN H
    ELSE IF ~Mapped(H, a) THEN Fault(H)
    ELSE [H EXCEPT !.mem[a] = info]

SetPrevious(H, a, p) ==
    IF ~Ok(H) THEN H
    ELSE IF ~Mapped(H, a) THEN Fault(H)
    ELSE [H EXCEPT !.mem[a].previous = p]

SetNext(H, a, n) ==
    IF ~Ok(H) THEN H
    ELSE IF ~Mapped(H, a) THEN Fault(H)
    ELSE [H EXCEPT !.mem[a].next = n]

set_free(H, a) ==
    IF ~Ok(H) THEN H
    ELSE IF ~Mapped(H, a) THEN Fault(H)
    ELSE [H EXCEPT !.mem[a].block_flags = @ \cup {FreeBit}]

set_occupied(H, a) ==
    IF ~Ok(H) THEN H
    ELSE IF ~Mapped(H, a) THEN Fault(H)
    ELSE [H EXCEPT !.mem[a].block_flags = @ \ {FreeBit}]

set_first(H, a, level) ==
    IF ~Ok(H) THEN H
    ELSE IF ~Mapped(H, a) THEN Fault(H)
    ELSE [H EXCEPT !.mem[a].block_flags = @ \cup {level}]

set_second(H, a, level) ==
    IF ~Ok(H) THEN H
    ELSE IF ~Mapped(H, a) THEN Fault(H)
    ELSE [H EXCEPT !.mem[a].block_flags = @ \ {level}]

\* the level of the largest block that is not larger than what bytes need
level_rounded_down(bytes) ==
    Sub(msb(Add(Add(bytes, padding), SizeofBlockInfo)), min_msb)

\* level_for_allocation_request( bytes, alignment )
level_for_allocation_request(bytes) ==
    LET required_size == Add(Add(bytes, padding), SizeofBlockInfo)
        level == Sub(msb(required_size), min_msb)
    IN  IF NotPowerOfTwo(required_size) THEN Add(level, 1) ELSE level

\* split_block( block, block_level )
split_block(H, block, block_level) ==
    LET block_size == 2 ^ (block_level + min_msb - 1)
        first == block
        second == Add(block, block_size \div 2)
        H1 == IF Mapped(H, first) THEN SetInfo(H, second, H.mem[first]) ELSE Fault(H)
        H2 == set_first(H1, first, block_level - 1)
        H3 == set_second(H2, second, block_level - 1)
    IN  [H |-> H3, first |-> first, second |-> second]

(* allocate_block( block_level ).  nullok tells what the store through     *)
(* free_block_lists[block_level] does when that pointer is null: TRUE, the *)
(* store lands outside the memory of the resource; FALSE, it traps.        *)
(* garbage is what the memory of a fresh top-level block holds.            *)
RECURSIVE allocate_block(_, _, _, _)
allocate_block(H, block_level, nullok, garbage) ==
    LET current == H.lists[block_level]
    IN  IF current # nullptr
        THEN IF ~Mapped(H, current)
             THEN [H |-> Fault(H), block |-> nullptr]
             ELSE LET H1 == [H EXCEPT !.lists[block_level] = H.mem[current].next]
                      H2 == IF H1.lists[block_level] = nullptr
                            THEN IF nullok THEN H1 ELSE Fault(H1)
                            ELSE SetPrevious(H1, H1.lists[block_level], nullptr)
                  IN  [H |-> set_occupied(H2, current), block |-> current]
        ELSE IF block_level # max_block_level
        THEN LET r == allocate_block(H, block_level + 1, nullok, garbage)
             IN  IF ~Ok(r.H)
                 THEN r
                 ELSE LET buddies == split_block(r.H, r.block, block_level + 1)
                          H1 == IF Ok(buddies.H)
                                THEN [buddies.H EXCEPT !.lists[block_level] = buddies.first]
                                ELSE buddies.H
                          H2 == SetPrevious(SetNext(H1, buddies.first, nullptr),
                                            buddies.first, nullptr)
                      IN  [H |-> set_free(H2, buddies.first), block |-> buddies.second]
        ELSE IF H.top = NumTop
        THEN [H |-> [H EXCEPT !.st = "bad_alloc"], block |-> nullptr]
        ELSE LET size == block_size_at_level(max_block_level, min_msb)
                 memory == ArenaBase + H.top * size
                 H1 == [H EXCEPT !.top = @ + 1,
                                 !.mem = [a \in DOMAIN @ |->
                                            IF memory <= a /\ a < memory + size
                                            THEN garbage ELSE @[a]]]
             IN  IF memory % top_level_block_alignment # 0
                 THEN [H |-> [H EXCEPT !.st = "bad_alloc"], block |-> nullptr]
                 ELSE [H |-> set_occupied(H1, memory), block |-> memory]

\* do_allocate( bytes, alignment )
do_allocate(H, bytes, nullok, garbage) ==
    IF bytes = 0
    THEN [H |-> H, p |-> nullptr]
    ELSE LET level == level_for_allocation_request(bytes)
         IN  IF level > max_block_level
             THEN [H |-> [H EXCEPT !.st = "bad_alloc"], p |-> nullptr]
             ELSE LET r == allocate_block(H, level, nullok, garbage)
                  IN  [H |-> r.H, p |-> IF Ok(r.H) THEN data(r.block) ELSE nullptr]

\* combine_buddies( first, second, block_level )
combine_buddies(H, first, second, block_level) ==
    IF is_second(H.mem[first], block_level) THEN second ELSE first

\* the branch of deallocate_block that puts block on its free list
push_free(H, block, block_level) ==
    LET H1 == SetNext(H, block, H.lists[block_level])
        H2 == SetPrevious(H1, block, nullptr)
        H3 == IF Ok(H2) THEN [H2 EXCEPT !.lists[block_level] = block] ELSE H2
        H4 == IF Ok(H3) /\ H3.mem[block].next # nullptr
              THEN SetPrevious(H3, H3.mem[block].next, block)
              ELSE H3
    IN  set_free(H4, block)

\* the part of deallocate_block that takes the buddy off its free list
unlink(H, bud, block_level) ==
    LET H1 == IF H.mem[bud].previous = nullptr
              THEN LET G == [H EXCEPT !.lists[block_level] = H.mem[bud].next]
                   IN  IF G.lists[block_level] # nullptr
                       THEN SetPrevious(G, G.lists[block_level], nullptr)
                       ELSE G
              ELSE LET G == SetNext(H, H.mem[bud].previous, H.mem[bud].next)
                   IN  IF Ok(G) /\ G.mem[bud].next # nullptr
                       THEN SetPrevious(G, G.mem[bud].next, G.mem[bud].previous)
                       ELSE G
    IN  set_occupied(H1, bud)

\* deallocate_block( block, block_level )
RECURSIVE deallocate_block(_, _, _)
deallocate_block(H, block, block_level) ==
    IF ~Ok(H) THEN H
    ELSE IF ~Mapped(H, block) THEN Fault(H)
    ELSE LET bud == buddy(H.mem[block], block, block_level)
         IN  IF block_level = max_block_level
             THEN push_free(H, block, block_level)
             ELSE IF ~Mapped(H, bud)
             THEN Fault(H)
             ELSE IF ~is_free(H.mem[bud])
             THEN push_free(H, block, block_level)
             ELSE LET H1 == unlink(H, bud, block_level)
                  IN  IF ~Ok(H1) THEN H1
                      ELSE deallocate_block(H1,
                                            combine_buddies(H1, block, bud, block_level),
                                            block_level + 1)

\* do_deallocate( p, bytes, alignment )
do_deallocate(H, p, bytes) ==
    IF bytes = 0
    THEN H
    ELSE deallocate_block(H, Sub(p, padding + SizeofBlockInfo),
                          level_for_allocation_request(bytes))

(***************************************************************************)
(* The users of a buddy_resource: construction, allocate, deallocate, and  *)
(* stores of the user into the memory an allocation gave it.               *)
(***************************************************************************)
\* largest number of allocations the user holds at a time
MaxOutstanding == 3
\* largest number of operations made on one resource
MaxBuddyOps == 5

BuddyConfig(min_bs, max_bs, tlp_alignment) ==
    [min_block_size |-> min_bs, max_block_size |-> max_bs,
     tlp_alignment |-> tlp_alignment]

\* the constructor arguments tried: three levels over the smallest allowed
\* block, the arguments of build_memory_manager, and three levels over
\* blocks of twice the smallest allowed size
BuddyConfigs ==
    {BuddyConfig(min_allowed_block_size, 4 * min_allowed_block_size, max_align),
     BuddyConfig(pagesize \div 1024, pagesize, pagesize),
     BuddyConfig(2 * min_allowed_block_size, 8 * min_allowed_block_size, max_align)}

\* the byte counts the user asks for: levels 0, 1, 2 and 3 over the
\* smallest allowed block
RequestBytes ==
    {SizeofBlockInfo + padding, 3 * (SizeofBlockInfo + padding),
     7 * (SizeofBlockInfo + padding), 15 * (SizeofBlockInfo + padding)}

\* what the user stores at a place of its allocation
UserInfos == {ZeroInfo, BlockInfo({FreeBit}, nullptr, nullptr)}

Allocation(p, bytes) == [p |-> p, bytes |-> bytes]

\* the blocks of the free list that starts at block, following the next
\* pointers the blocks hold in memory m
RECURSIVE free_list_from(_, _, _)
free_list_from(m, block, fuel) ==
    IF block = nullptr \/ fuel = 0 \/ block \notin DOMAIN m THEN {}
    ELSE {block} \cup free_list_from(m, m[block].next, fuel - 1)

\* the blocks of every free list
free_lists_of(m, lists) ==
    [level \in DOMAIN lists |->
        free_list_from(m, lists[level], Cardinality(DOMAIN m))]

InitBuddy ==
    /\ IdleDist
    /\ IdleBuild
    /\ IdleEnv
    /\ IdlePlace
    /\ IdleMap
    /\ bcfg \in BuddyConfigs
    /\ mem = [a \in InfoAddresses(bcfg) |-> ZeroInfo]
    /\ free_block_lists = [level \in 0..max_block_level |-> nullptr]
    /\ upstream_blocks = 0
    /\ lists_memory = nullptr
    /\ outstanding = <<>>
    /\ bd_pc = "construct"
    /\ bd_ops = 0
    /\ bd_mark = [lists |-> <<>>, phase |-> "other", run |-> <<>>]
    /\ bd_last = NoCall
    /\ bd_dtor = NotDestroying

\* the argument checks of buddy_resource::buddy_resource
InvalidArgument ==
    \/ bcfg.min_block_size > bcfg.max_block_size
    \/ NotPowerOfTwo(bcfg.min_block_size)
    \/ NotPowerOfTwo(bcfg.max_block_size)
    \/ bcfg.min_block_size <= SizeofBlockInfo + padding
    \/ num_block_levels > max_num_allowed_block_levels
    \/ UintMax \div num_block_levels < SizeofPtr

\* buddy_resource::buddy_resource throws std::invalid_argument
BuddyConstructInvalid ==
    /\ bd_pc = "construct"
    /\ InvalidArgument
    /\ bd_pc' = "invalid_argument"
    /\ UNCHANGED <<bcfg, mem, free_block_lists, upstream_blocks, lists_memory,
                   outstanding, bd_ops, bd_mark, bd_last>>
    /\ UNCHANGED <<bd_dtor, notBuddy>>

\* the words of the free-list array lie over the block infos of H at
\* block_lists_memory: a pointer to a block has neither a level bit nor the
\* top bit set
WithListsAt(H, p) ==
    [H EXCEPT !.mem = [a \in DOMAIN @ |->
        LET off == a - p
        IN  IF off < 0 THEN @[a]
            ELSE BlockInfo(IF off < block_lists_size THEN {} ELSE @[a].block_flags,
                           IF off + SizeofPtr < block_lists_size
                           THEN nullptr ELSE @[a].previous,
                           IF off + 2 * SizeofPtr < block_lists_size
                           THEN nullptr ELSE @[a].next)]]

\* buddy_resource::buddy_resource: the free lists are allocated from the
\* resource itself
BuddyConstruct(nullok, garbage) ==
    /\ bd_pc = "construct"
    /\ ~InvalidArgument
    /\ LET r == do_allocate(Heap, block_lists_size, nullok, garbage)
       IN  /\ Ok(r.H)
           /\ mem' = WithListsAt(r.H, r.p).mem
           /\ free_block_lists' = r.H.lists
           /\ upstream_blocks' = r.H.top
           /\ lists_memory' = r.p
    /\ bd_pc' = "ready"
    /\ bd_mark' = [lists |-> free_lists_of(mem', free_block_lists'),
                   phase |-> "other", run |-> <<>>]
    /\ UNCHANGED <<bcfg, outstanding, bd_ops, bd_last>>
    /\ UNCHANGED <<bd_dtor, notBuddy>>

\* buddy_resource::buddy_resource: the allocation of the free lists throws
BuddyConstructBadAlloc(nullok, garbage) ==
    /\ bd_pc = "construct"
    /\ ~InvalidArgument
    /\ do_allocate(Heap, block_lists_size, nullok, garbage).H.st = "bad_alloc"
    /\ bd_pc' = "bad_alloc"
    /\ UNCHANGED <<bcfg, mem, free_block_lists, upstream_blocks, lists_memory,
                   outstanding, bd_ops, bd_mark, bd_last>>
    /\ UNCHANGED <<bd_dtor, notBuddy>>

\* p = allocate( bytes, alignment ) returns
Allocate(bytes, nullok, garbage) ==
    /\ bd_pc = "ready"
    /\ bd_ops < MaxBuddyOps
    /\ Len(outstanding) < MaxOutstanding
    /\ LET r == do_allocate(Heap, bytes, nullok, garbage)
       IN  /\ Ok(r.H)
           /\ mem' = r.H.mem
           /\ free_block_lists' = r.H.lists
           /\ upstream_blocks' = r.H.top
           /\ outstanding' = Append(outstanding, Allocation(r.p, bytes))
    /\ bd_mark' = IF outstanding = <<>>
                  THEN [lists |-> free_lists_of(mem, free_block_lists),
                        phase |-> "allocating", run |-> <<bytes>>]
                  ELSE IF bd_mark.phase = "allocating"
                  THEN [bd_mark EXCEPT !.run = Append(@, bytes)]
                  ELSE [bd_mark EXCEPT !.phase = "other"]
    /\ bd_last' = [bytes |-> bytes, outcome |-> "returned",
                   level |-> level_for_allocation_request(bytes)]
    /\ bd_ops' = bd_ops + 1
    /\ UNCHANGED <<bcfg, lists_memory, bd_pc>>
    /\ UNCHANGED <<bd_dtor, notBuddy>>

\* allocate( bytes, alignment ) throws std::bad_alloc
AllocateThrows(bytes, nullok, garbage) ==
    /\ bd_pc = "ready"
    /\ bd_ops < MaxBuddyOps
    /\ Len(outstanding) < MaxOutstanding
    /\ do_allocate(Heap, bytes, nullok, garbage).H.st = "bad_alloc"
    /\ bd_last' = [bytes |-> bytes, outcome |-> "bad_alloc", level |-> 0]
    /\ bd_ops' = bd_ops + 1
    /\ UNCHANGED <<bcfg, mem, free_block_lists, upstream_blocks, lists_memory,
                   outstanding, bd_pc, bd_mark>>
    /\ UNCHANGED <<bd_dtor, notBuddy>>

\* allocate( bytes, alignment ) stores through a pointer to no memory
AllocateFaults(bytes, nullok, garbage) ==
    /\ bd_pc = "ready"
    /\ bd_ops < MaxBuddyOps
    /\ Len(outstanding) < MaxOutstanding
    /\ LET r == do_allocate(Heap, bytes, nullok, garbage)
       IN  /\ r.H.st = "fault"
           /\ mem' = r.H.mem
           /\ free_block_lists' = r.H.lists
           /\ upstream_blocks' = r.H.top
    /\ bd_pc' = "fault"
    /\ bd_last' = [bytes |-> bytes, outcome |-> "fault", level |-> 0]
    /\ bd_ops' = bd_ops + 1
    /\ UNCHANGED <<bcfg, lists_memory, outstanding, bd_mark>>
    /\ UNCHANGED <<bd_dtor, notBuddy>>

Remove(s, i) == SubSeq(s, 1, i - 1) \o SubSeq(s, i + 1, Len(s))

\* deallocate( p, bytes, alignment ) of the i-th allocation held
Deallocate(i) ==
    /\ bd_pc = "ready"
    /\ bd_ops < MaxBuddyOps
    /\ i \in 1..Len(outstanding)
    /\ LET H == do_deallocate(Heap, outstanding[i].p, outstanding[i].bytes)
       IN  /\ Ok(H)
           /\ mem' = H.mem
           /\ free_block_lists' = H.lists
    /\ outstanding' = Remove(outstanding, i)
    /\ bd_mark' = IF i = Len(outstanding) /\ bd_mark.phase # "other"
                  THEN [bd_mark EXCEPT !.phase = "releasing"]
                  ELSE [bd_mark EXCEPT !.phase = "other"]
    /\ bd_ops' = bd_ops + 1
    /\ UNCHANGED <<bcfg, upstream_blocks, lists_memory, bd_pc, bd_last>>
    /\ UNCHANGED <<bd_dtor, notBuddy>>

\* deallocate( p, bytes, alignment ) follows a pointer to no memory
DeallocateFaults(i) ==
    /\ bd_pc = "ready"
    /\ bd_ops < MaxBuddyOps
    /\ i \in 1..Len(outstanding)
    /\ LET H == do_deallocate(Heap, outstanding[i].p, outstanding[i].bytes)
       IN  /\ H.st = "fault"
           /\ mem' = H.mem
           /\ free_block_lists' = H.lists
    /\ outstanding' = Remove(outstanding, i)
    /\ bd_pc' = "fault"
    /\ bd_ops' = bd_ops + 1
    /\ UNCHANGED <<bcfg, upstream_blocks, lists_memory, bd_mark, bd_last>>
    /\ UNCHANGED <<bd_dtor, notBuddy>>

\* the user stores info at address a of the i-th allocation it holds; a
\* store over the free-list array leaves the resource without its lists
UserStore(i, a, info) ==
    /\ bd_pc = "ready"
    /\ bd_ops < MaxBuddyOps
    /\ i \in 1..Len(outstanding)
    /\ a \in DOMAIN mem
    /\ outstanding[i].p <= a
    /\ a + SizeofBlockInfo + padding <= outstanding[i].p + outstanding[i].bytes
    /\ IF a < lists_memory + block_lists_size
          /\ lists_memory < a + SizeofBlockInfo + padding
       THEN bd_pc' = "fault" /\ mem' = mem
       ELSE bd_pc' = bd_pc /\ mem' = [mem EXCEPT ![a] = info]
    /\ bd_mark' = [bd_mark EXCEPT !.phase = "other"]
    /\ bd_ops' = bd_ops + 1
    /\ UNCHANGED <<bcfg, free_block_lists, upstream_blocks, lists_memory, outstanding,
                   bd_last>>
    /\ UNCHANGED <<bd_dtor, notBuddy>>

NextBuddy ==
    \/ BuddyConstructInvalid
    \/ \E nullok \in BOOLEAN, garbage \in GarbageInfos :
          BuddyConstruct(nullok, garbage)
    \/ \E nullok \in BOOLEAN, garbage \in GarbageInfos :
          BuddyConstructBadAlloc(nullok, garbage)
    \/ \E bytes \in RequestBytes, nullok \in BOOLEAN, garbage \in GarbageInfos :
          Allocate(bytes, nullok, garbage)
    \/ \E bytes \in RequestBytes, nullok \in BOOLEAN, garbage \in GarbageInfos :
          AllocateThrows(bytes, nullok, garbage)
    \/ \E bytes \in RequestBytes, nullok \in BOOLEAN, garbage \in GarbageInfos :
          AllocateFaults(bytes, nullok, garbage)
    \/ \E i \in 1..MaxOutstanding : Deallocate(i)
    \/ \E i \in 1..MaxOutstanding : DeallocateFaults(i)
    \/ \E i \in 1..MaxOutstanding, a \in DOMAIN mem, info \in UserInfos :
          UserStore(i, a, info)

SpecBuddy == InitBuddy /\ [][NextBuddy]_vars

(***************************************************************************)
(* One buddy_resource of five levels over the smallest allowed block, and  *)
(* a user that allocates and deallocates and stores nothing.               *)
(***************************************************************************)
LadderConfig ==
    BuddyConfig(min_allowed_block_size, 16 * min_allowed_block_size, max_align)

InitLadder ==
    /\ IdleDist
    /\ IdleBuild
    /\ IdleEnv
    /\ IdlePlace
    /\ IdleMap
    /\ bcfg = LadderConfig
    /\ mem = [a \in InfoAddresses(bcfg) |-> ZeroInfo]
    /\ free_block_lists = [level \in 0..max_block_level |-> nullptr]
    /\ upstream_blocks = 0
    /\ lists_memory = nullptr
    /\ outstanding = <<>>
    /\ bd_pc = "construct"
    /\ bd_ops = 0
    /\ bd_mark = [lists |-> <<>>, phase |-> "other", run |-> <<>>]
    /\ bd_last = NoCall
    /\ bd_dtor = NotDestroying

NextLadder ==
    \/ \E nullok \in BOOLEAN, garbage \in GarbageInfos :
          BuddyConstruct(nullok, garbage)
    \/ \E bytes \in RequestBytes, nullok \in BOOLEAN, garbage \in GarbageInfos :
          Allocate(bytes, nullok, garbage)
    \/ \E bytes \in RequestBytes, nullok \in BOOLEAN, garbage \in GarbageInfos :
          AllocateFaults(bytes, nullok, garbage)
    \/ \E i \in 1..MaxOutstanding : Deallocate(i)
    \/ \E i \in 1..MaxOutstanding : DeallocateFaults(i)

SpecLadder == InitLadder /\ [][NextLadder]_vars

(***************************************************************************)
(* A buddy_resource and a user that calls allocate with byte counts next   *)
(* to every bound of level_for_allocation_request: one less than, equal to *)
(* and one more than what fits a block of each size, and the byte counts   *)
(* for which bytes + padding + sizeof(memory_block_info) wraps around.     *)
(***************************************************************************)
\* largest number of calls of allocate
MaxRequests == 2

\* the bytes of a block that are not handed to the user
HeaderBytes == SizeofBlockInfo + padding

EdgeBytes ==
    {b \in {2 ^ k - HeaderBytes + d :
               k \in (msb(min_allowed_block_size) - 1)..(msb(min_allowed_block_size) + 4),
               d \in {-1, 0, 1}}
           \cup {UintMax - d : d \in 0..(HeaderBytes + 1)}
           \cup {1} :
        b > 0 /\ b <= UintMax}

InitRequest ==
    /\ IdleDist
    /\ IdleBuild
    /\ IdleEnv
    /\ IdlePlace
    /\ IdleMap
    /\ bcfg \in BuddyConfigs \cup {LadderConfig}
    /\ mem = [a \in InfoAddresses(bcfg) |-> ZeroInfo]
    /\ free_block_lists = [level \in 0..max_block_level |-> nullptr]
    /\ upstream_blocks = 0
    /\ lists_memory = nullptr
    /\ outstanding = <<>>
    /\ bd_pc = "construct"
    /\ bd_ops = 0
    /\ bd_mark = [lists |-> <<>>, phase |-> "other", run |-> <<>>]
    /\ bd_last = NoCall
    /\ bd_dtor = NotDestroying

NextRequest ==
    \/ BuddyConstructInvalid
    \/ \E nullok \in BOOLEAN, garbage \in GarbageInfos :
          BuddyConstruct(nullok, garbage)
    \/ \E nullok \in BOOLEAN, garbage \in GarbageInfos :
          BuddyConstructBadAlloc(nullok, garbage)
    \/ \E bytes \in EdgeBytes, nullok \in BOOLEAN, garbage \in GarbageInfos :
          bd_ops < MaxRequests /\ Allocate(bytes, nullok, garbage)
    \/ \E bytes \in EdgeBytes, nullok \in BOOLEAN, garbage \in GarbageInfos :
          bd_ops < MaxRequests /\ AllocateThrows(bytes, nullok, garbage)
    \/ \E bytes \in EdgeBytes, nullok \in BOOLEAN, garbage \in GarbageInfos :
          bd_ops < MaxRequests /\ AllocateFaults(bytes, nullok, garbage)

SpecRequest == InitRequest /\ [][NextRequest]_vars

(***************************************************************************)
(* buddy_resource::~buddy_resource, one loop iteration per step.  The      *)
(* destructor copies the free-list heads into its stack frame, swaps the   *)
(* two pointers and then passes free_block_lists, which now refers to the  *)
(* copy in the stack frame, to deallocate: the block it deallocates is     *)
(* made of the words that lie in front of the copy, garbage.               *)
(***************************************************************************)
\* alignof(detail::memory_block_info)
AlignofBlockInfo == 8

\* largest number of blocks the destructor gives to the upstream resource
MaxReturned == 3

\* where the block info in front of the copy of the free lists would lie
StackBlock == Modulus - 8 * HeaderBytes

\* the words of the stack frame deallocate_block can reach from there
StackCells == {StackBlock + HeaderBytes * k : k \in -2..2}

WithStack(H, garbage) ==
    [H EXCEPT !.mem = [a \in DOMAIN @ \cup StackCells |->
                         IF a \in StackCells THEN garbage ELSE @[a]]]

\* the destructor up to its loops, stack the words of the stack frame
destroy_lists(stack) ==
    do_deallocate(WithStack(Heap, stack), data(StackBlock), block_lists_size)

DestroyBegin(stack) ==
    /\ bd_pc = "ready"
    /\ outstanding = <<>>
    /\ LET H == destroy_lists(stack)
       IN  /\ Ok(H)
           /\ mem' = H.mem
           /\ free_block_lists' = H.lists
    /\ bd_pc' = "drain"
    /\ bd_dtor' = [level |-> 0, current |-> nullptr, returned |-> <<>>, spin |-> 0]
    /\ UNCHANGED <<bcfg, upstream_blocks, lists_memory, outstanding, bd_ops,
                   bd_mark, bd_last>>
    /\ UNCHANGED notBuddy

\* the deallocation of the copy follows a pointer to no memory
DestroyBeginFaults(stack) ==
    /\ bd_pc = "ready"
    /\ outstanding = <<>>
    /\ LET H == destroy_lists(stack)
       IN  /\ H.st = "fault"
           /\ mem' = H.mem
           /\ free_block_lists' = H.lists
    /\ bd_pc' = "fault"
    /\ UNCHANGED <<bcfg, upstream_blocks, lists_memory, outstanding, bd_ops,
                   bd_mark, bd_last, bd_dtor>>
    /\ UNCHANGED notBuddy

\* deallocate_block( current, level ) with current = free_block_lists[level];
\* the words it reads are those a deallocate of the user has read before
DestroyDrain ==
    /\ bd_pc = "drain"
    /\ bd_dtor.level # max_block_level
    /\ free_block_lists[bd_dtor.level] # nullptr
    /\ LET H == deallocate_block(Heap, free_block_lists[bd_dtor.level], bd_dtor.level)
       IN  /\ Ok(H)
           /\ mem' = H.mem
           /\ free_block_lists' = H.lists
    /\ bd_dtor' = [bd_dtor EXCEPT !.spin = 1 - @]
    /\ UNCHANGED <<bcfg, upstream_blocks, lists_memory, outstanding, bd_pc, bd_ops,
                   bd_mark, bd_last>>
    /\ UNCHANGED notBuddy

\* the free list of the level is empty: level++
DestroyNextLevel ==
    /\ bd_pc = "drain"
    /\ bd_dtor.level # max_block_level
    /\ free_block_lists[bd_dtor.level] = nullptr
    /\ bd_dtor' = [bd_dtor EXCEPT !.level = @ + 1]
    /\ UNCHANGED <<bcfg, mem, free_block_lists, upstream_blocks, lists_memory,
                   outstanding, bd_pc, bd_ops, bd_mark, bd_last>>
    /\ UNCHANGED notBuddy

\* the loop over the levels is left: current = free_block_lists[max_block_level]
DestroyDrained ==
    /\ bd_pc = "drain"
    /\ bd_dtor.level = max_block_level
    /\ bd_pc' = "return"
    /\ bd_dtor' = [bd_dtor EXCEPT !.current = free_block_lists[max_block_level]]
    /\ UNCHANGED <<bcfg, mem, free_block_lists, upstream_blocks, lists_memory,
                   outstanding, bd_ops, bd_mark, bd_last>>
    /\ UNCHANGED notBuddy

\* upstream->deallocate( current, ... ); current = current->next
DestroyReturn ==
    /\ bd_pc = "return"
    /\ bd_dtor.current # nullptr
    /\ bd_dtor.current \in DOMAIN mem
    /\ Len(bd_dtor.returned) < MaxReturned
    /\ bd_dtor' = [bd_dtor EXCEPT
                     !.returned = Append(@, [p |-> bd_dtor.current,
                                             size |-> 2 ^ (max_block_level + min_msb - 1),
                                             alignment |-> AlignofBlockInfo]),
                     !.current = mem[bd_dtor.current].next]
    /\ UNCHANGED <<bcfg, mem, free_block_lists, upstream_blocks, lists_memory,
                   outstanding, bd_pc, bd_ops, bd_mark, bd_last>>
    /\ UNCHANGED notBuddy

\* the destructor returns
DestroyEnd ==
    /\ bd_pc = "return"
    /\ bd_dtor.current = nullptr
    /\ bd_pc' = "destroyed"
    /\ UNCHANGED <<bcfg, mem, free_block_lists, upstream_blocks, lists_memory,
                   outstanding, bd_ops, bd_mark, bd_last, bd_dtor>>
    /\ UNCHANGED notBuddy

DestroySteps ==
    \/ DestroyDrain
    \/ DestroyNextLevel
    \/ DestroyDrained
    \/ DestroyReturn
    \/ DestroyEnd

\* resources of one level, of three levels and of five levels
DestroyConfigs ==
    {BuddyConfig(min_allowed_block_size, min_allowed_block_size, max_align),
     BuddyConfig(min_allowed_block_size, 4 * min_allowed_block_size, max_align),
     LadderConfig}

InitDestroy ==
    /\ IdleDist
    /\ IdleBuild
    /\ IdleEnv
    /\ IdlePlace
    /\ IdleMap
    /\ bcfg \in DestroyConfigs
    /\ mem = [a \in InfoAddresses(bcfg) |-> ZeroInfo]
    /\ free_block_lists = [level \in 0..max_block_level |-> nullptr]
    /\ upstream_blocks = 0
    /\ lists_memory = nullptr
    /\ outstanding = <<>>
    /\ bd_pc = "construct"
    /\ bd_ops = 0
    /\ bd_mark = [lists |-> <<>>, phase |-> "other", run |-> <<>>]
    /\ bd_last = NoCall
    /\ bd_dtor = NotDestroying

NextDestroy ==
    \/ \E nullok \in BOOLEAN, garbage \in GarbageInfos :
          BuddyConstruct(nullok, garbage)
    \/ \E bytes \in RequestBytes, nullok \in BOOLEAN, garbage \in GarbageInfos :
          bd_ops < MaxRequests /\ Allocate(bytes, nullok, garbage)
    \/ \E bytes \in RequestBytes, nullok \in BOOLEAN, garbage \in GarbageInfos :
          bd_ops < MaxRequests /\ AllocateFaults(bytes, nullok, garbage)
    \/ \E i \in 1..MaxOutstanding : Deallocate(i)
    \/ \E i \in 1..MaxOutstanding : DeallocateFaults(i)
    \/ \E stack \in GarbageInfos : DestroyBegin(stack)
    \/ \E stack \in GarbageInfos : DestroyBeginFaults(stack)
    \/ DestroyDrain
    \/ DestroyNextLevel
    \/ DestroyDrained
    \/ DestroyReturn
    \/ DestroyEnd

\* the destructor, once called, runs on
SpecDestroy == InitDestroy /\ [][NextDestroy]_vars /\ WF_vars(DestroySteps)

(***************************************************************************)
(* kernel::distributed_resource over upstream resources that allocate from *)
(* a fixed span of memory and throw std::bad_alloc when it is used up.     *)
(***************************************************************************)
\* sizeof(std::size_t)
SizeofSizeT == 8
\* alignof(std::size_t)
AlignofSizeT == 8

\* largest number of upstream resources
MaxUpstreams == 2
\* largest number of blocks the user holds at a time
MaxDistOut == 2
\* largest number of deallocate calls recorded
MaxDistLog == 2
\* number of size_t words between the spans of two upstream resources
SpanWords == 8

Upstream(b, c) == [base |-> b, cap |-> c, used |-> 0]

\* the spans the upstream resources allocate from
UpstreamCaps == {SizeofSizeT, 2 * SizeofSizeT, 4 * SizeofSizeT}
InputUpstreams ==
    UNION {{[u \in 1..n |-> Upstream(u * SpanWords * SizeofSizeT, c[u])] :
               c \in [1..n -> UpstreamCaps]} : n \in 1..MaxUpstreams}

\* the arguments of allocate tried
DistBytes == {1, SizeofSizeT, UintMax - 3}
DistAlignments == {4, AlignofSizeT}

\* upstream->allocate( size, alignment ): the block and the upstream after
\* it, or no block when the span is used up
up_allocate(up, size, alignment) ==
    LET p == align(alignment, up.base + up.used)
    IN  IF p + size <= up.base + up.cap
        THEN [ok |-> TRUE, p |-> p, up |-> [up EXCEPT !.used = p + size - up.base]]
        ELSE [ok |-> FALSE, p |-> nullptr, up |-> up]

Overflow == [threw |-> TRUE, padding |-> 0]

\* required_padding( bytes, alignment )
required_padding(bytes, alignment) ==
    LET end_alignment_offset == Add(alignment % AlignofSizeT, bytes % AlignofSizeT)
        padding_ == IF end_alignment_offset # 0
                    THEN Sub(AlignofSizeT, end_alignment_offset)
                    ELSE 0
    IN  IF end_alignment_offset # 0 /\ Sub(UintMax, padding_) < bytes
        THEN Overflow
        ELSE IF Sub(UintMax, SizeofSizeT) < Add(bytes, padding_)
        THEN Overflow
        ELSE [threw |-> FALSE, padding |-> padding_]

\* the address do_allocate stores the upstream index at
alloc_index_address(memory, bytes, padding_) == Add(Add(memory, bytes), padding_)

\* the address do_deallocate reads the upstream index from
dealloc_index_address_nopad(p, bytes, padding_) == Add(p, bytes)
dealloc_index_address(p, bytes, padding_) == Add(Add(p, bytes), padding_)

\* store_resources: the container is built with the first upstream that can
\* hold it; stale is what its storage held before
RECURSIVE store_resources(_, _, _)
store_resources(ups, it, stale) ==
    IF it > Len(ups)
    THEN [ok |-> FALSE, ups |-> ups, resources |-> <<>>]
    ELSE LET a == up_allocate(ups[it], Len(ups) * SizeofPtr, SizeofPtr)
         IN  IF a.ok
             THEN [ok |-> TRUE, ups |-> [ups EXCEPT ![it] = a.up],
                   resources |-> dynarray_from_range([u \in 1..Len(ups) |-> u],
                                                     [u \in 1..Len(ups) |-> stale])]
             ELSE store_resources(ups, it + 1, stale)

\* the for loop of do_allocate from position index (counted from 0)
RECURSIVE dist_allocate_from(_, _, _, _)
dist_allocate_from(ups, index, actual_size, alignment) ==
    IF index = Len(dr_resources)
    THEN [result |-> "bad_alloc", ups |-> ups, memory |-> nullptr, index |-> index]
    ELSE IF dr_resources[index + 1] = nullptr
    THEN [result |-> "fault", ups |-> ups, memory |-> nullptr, index |-> index]
    ELSE LET a == up_allocate(ups[dr_resources[index + 1]], actual_size, alignment)
         IN  IF a.ok
             THEN [result |-> "ok",
                   ups |-> [ups EXCEPT ![dr_resources[index + 1]] = a.up],
                   memory |-> a.p, index |-> index]
             ELSE dist_allocate_from(ups, index + 1, actual_size, alignment)

\* do_allocate( bytes, alignment )
dist_allocate(bytes, alignment) ==
    LET rp == required_padding(bytes, alignment)
    IN  IF rp.threw
        THEN [result |-> "bad_alloc", ups |-> dr_upstreams, memory |-> nullptr,
              index |-> 0, padding |-> 0, actual_size |-> 0]
        ELSE LET actual_size == Add(Add(bytes, rp.padding), SizeofSizeT)
                 r == dist_allocate_from(dr_upstreams, 0, actual_size, alignment)
             IN  [result |-> r.result, ups |-> r.ups, memory |-> r.memory,
                  index |-> r.index, padding |-> rp.padding,
                  actual_size |-> actual_size]

InitDist ==
    /\ IdlePlace
    /\ IdleMap
    /\ IdleBuddy
    /\ IdleBuild
    /\ IdleEnv
    /\ dr_upstreams \in InputUpstreams
    /\ dr_resources = <<>>
    /\ dr_words = <<>>
    /\ dr_out = <<>>
    /\ dr_log = <<>>
    /\ dr_pc = "construct"

\* distributed_resource::distributed_resource
DistConstruct(stale) ==
    /\ dr_pc = "construct"
    /\ LET r == store_resources(dr_upstreams, 1, stale)
       IN  /\ r.ok
           /\ dr_upstreams' = r.ups
           /\ dr_resources' = r.resources
    /\ dr_pc' = "ready"
    /\ UNCHANGED <<dr_words, dr_out, dr_log>>
    /\ UNCHANGED notDist

\* distributed_resource::distributed_resource throws std::bad_alloc
DistConstructThrows(stale) ==
    /\ dr_pc = "construct"
    /\ ~ store_resources(dr_upstreams, 1, stale).ok
    /\ dr_pc' = "bad_alloc"
    /\ UNCHANGED <<dr_upstreams, dr_resources, dr_words, dr_out, dr_log>>
    /\ UNCHANGED notDist

\* p = allocate( bytes, alignment ) returns
DistAllocate(bytes, alignment) ==
    /\ dr_pc = "ready"
    /\ Len(dr_out) < MaxDistOut
    /\ LET r == dist_allocate(bytes, alignment)
           index_address == alloc_index_address(r.memory, bytes, r.padding)
       IN  /\ r.result = "ok"
           /\ dr_upstreams' = r.ups
           /\ dr_words' = [a \in DOMAIN dr_words \cup {index_address} |->
                            IF a = index_address THEN r.index ELSE dr_words[a]]
           /\ dr_out' = Append(dr_out,
                               [p |-> r.memory, bytes |-> bytes, alignment |-> alignment,
                                index |-> r.index,
                                served_by |-> dr_resources[r.index + 1],
                                actual_size |-> r.actual_size])
    /\ UNCHANGED <<dr_resources, dr_log, dr_pc>>
    /\ UNCHANGED notDist

\* allocate( bytes, alignment ) throws std::bad_alloc
DistAllocateThrows(bytes, alignment) ==
    /\ dr_pc = "ready"
    /\ Len(dr_out) < MaxDistOut
    /\ dist_allocate(bytes, alignment).result = "bad_alloc"
    /\ dr_pc' = "threw"
    /\ UNCHANGED <<dr_upstreams, dr_resources, dr_words, dr_out, dr_log>>
    /\ UNCHANGED notDist

\* the caller goes on after the exception
DistResume ==
    /\ dr_pc = "threw"
    /\ dr_pc' = "ready"
    /\ UNCHANGED <<dr_upstreams, dr_resources, dr_words, dr_out, dr_log>>
    /\ UNCHANGED notDist

\* allocate( bytes, alignment ) calls through a pointer that was never set
DistAllocateFaults(bytes, alignment) ==
    /\ dr_pc = "ready"
    /\ Len(dr_out) < MaxDistOut
    /\ dist_allocate(bytes, alignment).result = "fault"
    /\ dr_pc' = "fault"
    /\ UNCHANGED <<dr_upstreams, dr_resources, dr_words, dr_out, dr_log>>
    /\ UNCHANGED notDist

\* deallocate( p, bytes, alignment ) of the i-th block held; unwritten is
\* what a word of memory nothing was stored at reads as
DistDeallocate(i, unwritten) ==
    /\ dr_pc = "ready"
    /\ i \in 1..Len(dr_out)
    /\ Len(dr_log) < MaxDistLog
    /\ LET b == dr_out[i]
           rp == required_padding(b.bytes, b.alignment)
           index_address == dealloc_index_address(b.p, b.bytes, rp.padding)
           index == IF index_address \in DOMAIN dr_words
                    THEN dr_words[index_address] ELSE unwritten
       IN  /\ ~ rp.threw
           /\ index < Len(dr_resources)
           /\ dr_resources[index + 1] # nullptr
           /\ dr_log' = Append(dr_log,
                               [block |-> b, index |-> index,
                                returned_to |-> dr_resources[index + 1],
                                size |-> b.bytes, alignment |-> b.alignment])
    /\ dr_out' = Remove(dr_out, i)
    /\ UNCHANGED <<dr_upstreams, dr_resources, dr_words, dr_pc>>
    /\ UNCHANGED notDist

NextDist ==
    \/ \E stale \in 0..Len(dr_upstreams) : DistConstruct(stale)
    \/ \E stale \in 0..Len(dr_upstreams) : DistConstructThrows(stale)
    \/ \E bytes \in DistBytes, alignment \in DistAlignments :
          DistAllocate(bytes, alignment)
    \/ \E bytes \in DistBytes, alignment \in DistAlignments :
          DistAllocateThrows(bytes, alignment)
    \/ \E bytes \in DistBytes, alignment \in DistAlignments :
          DistAllocateFaults(bytes, alignment)
    \/ DistResume
    \/ \E i \in 1..MaxDistOut, unwritten \in 0..(MaxUpstreams - 1) :
          DistDeallocate(i, unwritten)

SpecDist == InitDist /\ [][NextDist]_vars

(***************************************************************************)
(* The occupied memory of the boot environment: environment_v1 and         *)
(* UEFI::memory_map::occupied_memory, and the list setup_memory_manager    *)
(* hands to the memory manager.                                            *)
(***************************************************************************)
\* sizeof(UEFI::memory_map): descriptors, number_of_descriptors,
\* descriptor_size, descriptor_version, least_compatible_version
SizeofUefiMemoryMap == 32
\* sizeof(UEFI::un), the type of number_of_descriptors * descriptor_size
SizeofUn == 8
\* sizeof(environment): data, version, least_compatible_version
SizeofEnvironment == 16
\* sizeof(UEFI::memory_region): start, size
SizeofUefiMemoryRegion == 16
\* sizeof(environment_v1): two regions and the memory map
SizeofEnvironmentV1 == 2 * SizeofUefiMemoryRegion + SizeofUefiMemoryMap

\* where &environment->memmap lies
memmap_address(e) == Add(e.address, 2 * SizeofUefiMemoryRegion)

\* UEFI::memory_map::occupied_memory
memmap_occupied_memory(e) ==
    <<Region(memmap_address(e), SizeofUefiMemoryMap),
      Region(e.memmap.descriptors, SizeofUn)>>

\* environment_v1::occupied_memory
environment_occupied_memory(e) ==
    memmap_occupied_memory(e) \o <<Region(e.address, SizeofEnvironment)>>

\* the results std::sort may give for operator< of memory_region
SortedByStart(s) ==
    {t \in {[i \in 1..Len(s) |-> s[p[i]]] :
                p \in {q \in [1..Len(s) -> 1..Len(s)] :
                          \A i, j \in 1..Len(s) : i # j => q[i] # q[j]}} :
        \A i \in 1..(Len(t) - 1) : ~ (t[i + 1].start < t[i].start)}

EnvAddresses == {pagesize, 2 * pagesize}
EnvDescriptorStorage == {3 * pagesize, 8 * pagesize}
EnvDescriptorSizes == {40, 48}
EnvKernelRegions == {Region(LowBase, pagesize), Region(LowBase + 4 * pagesize, 2 * pagesize)}

InitEnv ==
    /\ IdleDist
    /\ IdleBuild
    /\ IdlePlace
    /\ IdleMap
    /\ IdleBuddy
    /\ env \in [address : EnvAddresses,
                 kernel_image_region : EnvKernelRegions,
                 kernel_stack_region : EnvKernelRegions,
                 memmap : [descriptors : EnvDescriptorStorage,
                           number_of_descriptors : 0..MaxUefi,
                           descriptor_size : EnvDescriptorSizes]]
    /\ env_omd = <<>>
    /\ env_pc = "begin"

\* environment_omd = environment->occupied_memory()
EnvOccupiedMemory ==
    /\ env_pc = "begin"
    /\ env_omd' = environment_occupied_memory(env)
    /\ env_pc' = "environment_omd"
    /\ UNCHANGED env
    /\ UNCHANGED notEnv

\* the kernel regions are joined to the list and the list is sorted
EnvJoinAndSort ==
    /\ env_pc = "environment_omd"
    /\ env_omd' \in SortedByStart(env_omd \o <<env.kernel_image_region,
                                                env.kernel_stack_region>>)
    /\ env_pc' = "sorted"
    /\ UNCHANGED env
    /\ UNCHANGED notEnv

NextEnv ==
    \/ EnvOccupiedMemory
    \/ EnvJoinAndSort

SpecEnv == InitEnv /\ [][NextEnv]_vars

(***************************************************************************)
(* Properties of the placement engine.                                     *)
(***************************************************************************)
\* two spans of bytes [s1, s1 + z1) and [s2, s2 + z2) share a byte
SpansMeet(s1, z1, s2, z2) ==
    /\ z1 > 0
    /\ z2 > 0
    /\ s1 < s2 + z2
    /\ s2 < s1 + z1

\* the span [s, s + z) lies in the descriptor md
SpanInDesc(s, z, md) ==
    /\ md.virtual_start <= s
    /\ s + z <= desc_end(md)

\* the span [s, s + z) meets no region of the occupied list o
SpanFree(s, z, o) ==
    \A i \in 1..Len(o) : ~ SpansMeet(s, z, o[i].start, o[i].size)

\* C2: a region returned by meet_request, taken as the span of request.size
\* bytes at its base, intersects no region of the occupied list.
C2_PlacedIntersectsNoOccupied ==
    pl_pc = "placed" => SpanFree(placed.region.start, request.size, omd)

\* C3: a region returned by meet_request for a request of size S has its
\* size field equal to S.
C3_PlacedSizeIsRequestSize ==
    pl_pc = "placed" => placed.region.size = request.size

\* C4: a region returned by meet_request lies inside a descriptor of the map
\* whose type is general_purpose.
C4_PlacedInGeneralPurpose ==
    pl_pc = "placed" =>
        \E d \in 1..Len(memmap) :
            /\ memmap[d].type = "general_purpose"
            /\ SpanInDesc(placed.region.start, request.size, memmap[d])

\* the smallest multiple of a that is not below x
AlignUp(a, x) == ((x + a - 1) \div a) * a

\* the start addresses at which a lowest fitting region can begin
Candidates(map, o, req) ==
    {AlignUp(req.alignment, map[d].virtual_start) : d \in 1..Len(map)}
    \cup {AlignUp(req.alignment, o[i].start + o[i].size) : i \in 1..Len(o)}

\* the region of req.size bytes at a is aligned, inside descriptor d and free
Fits(map, o, req, d, a) ==
    /\ a % req.alignment = 0
    /\ a + req.size <= Modulus
    /\ SpanInDesc(a, req.size, map[d])
    /\ SpanFree(a, req.size, o)

FitSet(map, o, req) ==
    {p \in (1..Len(map)) \X Candidates(map, o, req) :
        Fits(map, o, req, p[1], p[2])}

\* C5: when a fitting region exists meet_request returns the least one in
\* the order (descriptor index, start); it throws only when none exists.
C5_PlacedIsLeastFit ==
    /\ pl_pc = "cannot_meet" => FitSet(memmap, omd, request) = {}
    /\ pl_pc = "placed" =>
         /\ <<placed.desc, placed.region.start>> \in FitSet(memmap, omd, request)
         /\ \A p \in FitSet(memmap, omd, request) :
               \/ placed.desc < p[1]
               \/ placed.desc = p[1] /\ placed.region.start <= p[2]

(***************************************************************************)
(* Properties of the available-memory enumerator.                          *)
(***************************************************************************)
\* C9: every region passed to the callback has non-zero size, lies inside a
\* general_purpose descriptor and intersects no occupied region.
C9_AvRegionsFreeAndUsable ==
    \A k \in 1..Len(av_regions) :
        LET r == av_regions[k]
        IN  /\ r.size # 0
            /\ \E d \in 1..Len(memmap) :
                  /\ memmap[d].type = "general_purpose"
                  /\ SpanInDesc(r.start, r.size, memmap[d])
            /\ SpanFree(r.start, r.size, omd)

\* the byte at address x belongs to an occupied region
Covered(x, o) == \E i \in 1..Len(o) : o[i].start <= x /\ x < o[i].start + o[i].size

Boundaries(md, o) ==
    {md.virtual_start, desc_end(md)}
    \cup {o[i].start : i \in 1..Len(o)}
    \cup {o[i].start + o[i].size : i \in 1..Len(o)}

\* the maximal non-empty runs of the descriptor md outside the union of o
MaximalRuns(md, o) ==
    {p \in Boundaries(md, o) \X Boundaries(md, o) :
        /\ p[1] < p[2]
        /\ md.virtual_start <= p[1]
        /\ p[2] <= desc_end(md)
        /\ SpanFree(p[1], p[2] - p[1], o)
        /\ (p[1] = md.virtual_start \/ Covered(p[1] - 1, o))
        /\ (p[2] = desc_end(md) \/ Covered(p[2], o))}

\* C10: the regions emitted for a general_purpose descriptor are exactly
\* the maximal non-empty runs of the descriptor minus the occupied list,
\* each emitted once.
C10_AvRegionsAreMaximalRuns ==
    pl_pc = "avm_done" =>
        \A d \in 1..Len(memmap) :
            LET emitted == {k \in 1..Len(av_regions) : av_regions[k].desc = d}
                runs == IF memmap[d].type = "general_purpose"
                        THEN MaximalRuns(memmap[d], omd) ELSE {}
            IN  /\ {<<av_regions[k].start, av_regions[k].start + av_regions[k].size>> :
                        k \in emitted} = runs
                /\ Cardinality(emitted) = Cardinality(runs)

(***************************************************************************)
(* Properties of the kernel memory map.                                    *)
(***************************************************************************)
\* C6: the virtual spans of any two distinct exposed descriptors of a
\* converted map are disjoint.
C6_VirtualSpansDisjoint ==
    conv_pc = "done" =>
        \A i, j \in 1..Len(descriptors) :
            i # j =>
                ~ SpansMeet(descriptors[i].virtual_start,
                            descriptors[i].number_of_pages * pagesize,
                            descriptors[j].virtual_start,
                            descriptors[j].number_of_pages * pagesize)

\* C7: the exposed descriptors of a converted map are strictly ascending
\* by virtual_start.
C7_StrictlyAscending ==
    conv_pc = "done" =>
        \A i \in 1..(Len(descriptors) - 1) :
            descriptors[i].virtual_start < descriptors[i + 1].virtual_start

\* C8: no two consecutive exposed descriptors have the same type, touch
\* virtually and line up physically (they would have been merged).
C8_NoMergablePairLeft ==
    conv_pc = "done" =>
        \A i \in 1..(Len(descriptors) - 1) :
            LET a == descriptors[i]
                b == descriptors[i + 1]
            IN  ~ /\ a.type = b.type
                  /\ a.virtual_start + a.number_of_pages * pagesize = b.virtual_start
                  /\ b.physical_start = a.physical_start + a.number_of_pages * pagesize

(***************************************************************************)
(* Properties of the buddy_resource.                                       *)
(***************************************************************************)
\* the bytes of an allocation the user holds
PayloadsOverlap(x, y) ==
    /\ x.p < y.p + y.bytes
    /\ y.p < x.p + x.bytes

\* C1: the memory ranges [p, p + bytes) of any two allocations that are
\* outstanding at the same time are disjoint, when every deallocate gave
\* back a held allocation with the bytes it was allocated with
C1_OutstandingPayloadsDisjoint ==
    \A i, j \in 1..Len(outstanding) :
        i < j => ~PayloadsOverlap(outstanding[i], outstanding[j])

(***************************************************************************)
(* Properties of build_memory_manager.                                     *)
(***************************************************************************)
\* the byte ranges [start, start + size) of two regions have no byte in common
RegionsDisjoint(a, b) ==
    \/ a.start + a.size <= b.start
    \/ b.start + b.size <= a.start

\* C11: the regions build_memory_manager places for MemMap, Occupied,
\* Available and the internal resources are pairwise disjoint, and each is
\* disjoint from every region of the occupied list the caller supplied
C11_BuildPlacementsDisjoint ==
    /\ \A i, j \in 1..Len(internal_omds) :
          i < j => RegionsDisjoint(internal_omds[i], internal_omds[j])
    /\ \A i \in 1..Len(internal_omds) : \A k \in 1..Len(caller_omd) :
          RegionsDisjoint(internal_omds[i], caller_omd[k])

(***************************************************************************)
(* Properties of the distributed_resource.                                 *)
(***************************************************************************)
\* C12: every deallocate of a block is forwarded to the upstream the block
\* was obtained from, under the index it was obtained under
C12_DeallocateToOriginatingUpstream ==
    \A k \in 1..Len(dr_log) :
        /\ dr_log[k].index = dr_log[k].block.index
        /\ dr_log[k].returned_to = dr_log[k].block.served_by

\* blocks obtained from two upstreams, under the indices 0 and 1, have both
\* been given back, the one obtained last being given back first
C12_Witness ==
    /\ Len(dr_log) = 2
    /\ dr_log[1].block.served_by # dr_log[2].block.served_by
    /\ dr_log[1].block.index = 1
    /\ dr_log[2].block.index = 0


\* C13: when the user holding nothing makes allocations and then gives them
\* all back in the reverse order, every free list below the top level holds
\* the blocks it held before the first of the allocations: every split has
\* been undone by a combine.
C13_ReverseDeallocationRestoresLists ==
    (bd_pc = "ready" /\ bd_mark.phase = "releasing" /\ outstanding = <<>>)
        => \A level \in 0..(max_block_level - 1) :
              free_lists_of(mem, free_block_lists)[level] = bd_mark.lists[level]


\* C14: scenario S4.  With the map of one general purpose descriptor of four
\* pages at 0x100000 and the occupied list [{0x100000, 4096},
\* {0x102000, 4096}], the request of 4096 bytes aligned to 4096 is met, and
\* it is met by the region {0x101000, 4096}.
S4_Map == <<Desc("general_purpose", LowBase, LowBase, 4)>>

S4_Occupied == <<Region(LowBase, pagesize), Region(LowBase + 2 * pagesize, pagesize)>>

S4_Request == [size |-> pagesize, alignment |-> pagesize]

C14_S4FirstRequestMet ==
    (/\ memmap = S4_Map
     /\ omd = S4_Occupied
     /\ request = S4_Request
     /\ pl_pc \in {"placed", "cannot_meet"})
        => /\ pl_pc = "placed"
           /\ placed.region = Region(LowBase + pagesize, pagesize)


\* C15: scenario S1.  The construction of the buddy resource of the memory
\* manager, buddy_resource( pagesize >> 10, pagesize, pagesize ), completes:
\* it throws neither std::invalid_argument nor std::bad_alloc.
S1_BuddyArguments == BuddyConfig(pagesize \div 1024, pagesize, pagesize)

C15_S1ConstructionCompletes ==
    (bcfg = S1_BuddyArguments /\ bd_pc # "construct")
        => bd_pc \notin {"invalid_argument", "bad_alloc"}


\* C16: scenario S5.  On a fresh buddy resource with min_block 64 and
\* max_block 1024, after allocate(32), allocate(32) and the deallocation of
\* both in the reverse order, one top-level block has been taken from the
\* upstream and the free lists hold a single block, at level 4.
S5_Bytes == SizeofBlockInfo + padding

C16_S5LadderEndsWithOneTopBlock ==
    (/\ bcfg = LadderConfig
     /\ bd_pc = "ready"
     /\ bd_ops = 4
     /\ outstanding = <<>>
     /\ bd_mark.phase = "releasing"
     /\ bd_mark.run = <<S5_Bytes, S5_Bytes>>)
        => /\ upstream_blocks = 1
           /\ Cardinality(free_lists_of(mem, free_block_lists)[max_block_level]) = 1
           /\ \A level \in 0..(max_block_level - 1) :
                 free_lists_of(mem, free_block_lists)[level] = {}


\* C17: allocate( bytes, alignment ) throws std::bad_alloc for every
\* bytes > 0 for which bytes + padding + sizeof(memory_block_info), computed
\* without wrap-around, is more than max_block_size, also when the sum does
\* not fit std::size_t; and a call that returns has asked allocate_block for
\* a level whose blocks are at least that large.
C17_OversizedRequestsThrow ==
    (bd_last.outcome # "none")
        => LET required_size == bd_last.bytes + padding + SizeofBlockInfo
           IN  /\ required_size > bcfg.max_block_size
                    => bd_last.outcome = "bad_alloc"
               /\ bd_last.outcome = "returned"
                    => block_size_at_level(bd_last.level, min_msb) >= required_size

\* a request whose required size wraps around has thrown std::bad_alloc
C17_Witness ==
    /\ bd_last.outcome = "bad_alloc"
    /\ bd_last.bytes + padding + SizeofBlockInfo > UintMax
    /\ bd_pc = "ready"


\* C18: the destructor of a buddy_resource whose user holds no allocation
\* terminates: its loops over the free lists below the top level come to an
\* end.
C18_DestructorDrainEnds ==
    (bd_pc = "drain") ~> (bd_pc \in {"return", "destroyed", "fault"})


\* C19: when the merge loop stands at two valid neighbouring descriptors that
\* overlap and differ in type, or overlap with physical addresses that do
\* not fit, the conversion goes on without an error.
CorruptOverlap(md1, md2) ==
    /\ is_valid(md1)
    /\ is_valid(md2)
    /\ have_overlap(md1, md2)
    /\ \/ md1.type # md2.type
       \/ md2.physical_start #
            Add(md1.physical_start, Sub(md2.virtual_start, md1.virtual_start))

C19_CorruptOverlapCompletes ==
    (/\ conv_pc \in {"merge", "threw"}
     /\ lower # endValid
     /\ lower + 1 # endValid
     /\ CorruptOverlap(stage1_descriptors[lower], stage1_descriptors[lower + 1]))
        => conv_pc # "threw"


\* C20: a firmware descriptor for which physical_start or virtual_start plus
\* number_of_pages * 4096, computed without wrap-around, does not fit
\* std::uintptr_t is converted to a descriptor of type invalid.  (The
\* descriptor converted last is the one found in the first slot of the
\* array.)
C20_OverflowingDescriptorIsInvalid ==
    (conv_pc = "partition" /\ Len(uefi_map) > 0)
        => LET uefi_desc == uefi_map[Len(uefi_map)]
               bytes == uefi_desc.number_of_pages * UEFIpagesize
           IN  (\/ uefi_desc.physical_start + bytes > UintMax
                \/ uefi_desc.virtual_start + bytes > UintMax)
                   => stage1_descriptors[1].type = "invalid"


\* C21: the occupied regions reported for the boot environment include a
\* region that starts at memmap.descriptors and has the size
\* number_of_descriptors * descriptor_size, and a region that starts at the
\* environment record and holds all of it.
C21_EnvironmentStorageCovered ==
    (env_pc \in {"environment_omd", "sorted"})
        => /\ \E i \in 1..Len(env_omd) :
                /\ env_omd[i].start = env.memmap.descriptors
                /\ env_omd[i].size = Mul(env.memmap.number_of_descriptors,
                                         env.memmap.descriptor_size)
           /\ \E i \in 1..Len(env_omd) :
                /\ env_omd[i].start = env.address
                /\ env_omd[i].size >= SizeofEnvironmentV1


\* C22: for every block the distributed resource has handed out, the
\* padding it computed is round_up(bytes, alignof(std::size_t)) - bytes:
\* the block asked from the upstream has bytes + that padding +
\* sizeof(std::size_t) bytes.
round_up(x, a) == ((x + a - 1) \div a) * a

C22_PaddingRoundsUpToWord ==
    \A i \in 1..Len(dr_out) :
        dr_out[i].actual_size =
            dr_out[i].bytes + (round_up(dr_out[i].bytes, AlignofSizeT) - dr_out[i].bytes)
                + SizeofSizeT


(***************************************************************************)
(* number_of_avm_regions as a function of the map and the occupied list:   *)
(* the callback invocations of transform_avm are counted.  The while loop  *)
(* is followed for at most AvmFuel iterations per descriptor, so the value *)
(* is a lower bound of the count when the loop does not end.               *)
(***************************************************************************)
AvmFuel == 12

RECURSIVE avm_scan(_, _, _, _, _)
avm_scan(region, occupied, r, from, fuel) ==
    LET found == find_intersection(r, occupied, from)
    IN  IF found > Len(occupied)
        THEN IF base(r) # top(region) THEN 1 ELSE 0
        ELSE LET emitted == IF base(r) # base(occupied[found]) THEN 1 ELSE 0
             IN  IF top(occupied[found]) > top(r)
                 THEN emitted + (IF top(r) # top(region) THEN 1 ELSE 0)
                 ELSE IF fuel = 0 THEN emitted
                 ELSE emitted +
                      avm_scan(region, occupied,
                               Region(top(occupied[found]),
                                      Sub(r.size, Sub(top(occupied[found]), base(r)))),
                               found, fuel - 1)

RECURSIVE avm_count_from(_, _, _)
avm_count_from(map, occupied, d) ==
    IF d > Len(map) THEN 0
    ELSE (IF map[d].type # "general_purpose" THEN 0
          ELSE avm_scan(desc_region(map[d]), occupied, desc_region(map[d]), 1, AvmFuel))
         + avm_count_from(map, occupied, d + 1)

number_of_avm_regions(map, occupied) == avm_count_from(map, occupied, 1)

\* C23: during build_memory_manager the number of available regions of
\* the occupied list extended so far is at most the number counted for the
\* caller's list plus one per placement made, hence at the end at most that
\* number plus number_of_memory_requests.
C23_FragmentsWithinSlack ==
    bm_pc \in {"place", "done"} =>
        number_of_avm_regions(memmap, omd) <= Len(av_regions) + Len(internal_omds)


\* no multiple of ALIGN at or above ptr fits into std::uintptr_t
Unalignable(ALIGN, ptr) ==
    (ptr % ALIGN) # 0 /\ ptr + (ALIGN - (ptr % ALIGN)) > UintMax

\* the while loop of meet_request, from attempt on, aligns the top of an
\* occupied region that is Unalignable
RECURSIVE aligns_unalignable(_, _, _, _, _)
aligns_unalignable(desc, occupied, req, attempt, from) ==
    LET found == find_intersection(attempt, occupied, from)
    IN  IF found > Len(occupied) THEN FALSE
        ELSE \/ Unalignable(req.alignment, top(occupied[found]))
             \/ LET next == Attempt(align(req.alignment, top(occupied[found])), req)
                IN  /\ contains_memory_region(desc, next)
                    /\ aligns_unalignable(desc, occupied, req, next, found + 1)

\* C24: align<ALIGN>( ptr ) is the least multiple of ALIGN at or above
\* ptr, and 0 when there is none in std::uintptr_t; meet_request returns no
\* region from a descriptor in which it aligned an address that has none.
C24_UnalignableAbandonsDescriptor ==
    /\ \A ALIGN \in {8, pagesize} :
         \A ptr \in {top(omd[i]) : i \in 1..Len(omd)}
                    \cup {memmap[d].virtual_start : d \in 1..Len(memmap)} :
            IF Unalignable(ALIGN, ptr)
            THEN align(ALIGN, ptr) = 0
            ELSE /\ align(ALIGN, ptr) % ALIGN = 0
                 /\ align(ALIGN, ptr) >= ptr
                 /\ align(ALIGN, ptr) - ptr < ALIGN
    /\ pl_pc = "placed" =>
         ~ aligns_unalignable(memmap[placed.desc], omd, request,
                              Attempt(align(request.alignment,
                                            memmap[placed.desc].virtual_start),
                                      request),
                              1)


\* C25: a free block that split_block marked as the first half at its level
\* has as its buddy at that level the second half, which lies one block
\* of that level above it.
C25_BuddyIsOtherHalf ==
    bd_pc = "ready" =>
        \A level \in 0..(max_block_level - 1) :
            \A b \in free_lists_of(mem, free_block_lists)[level] :
                is_first(mem[b], level) =>
                    buddy(mem[b], b, level) = Add(b, block_size_at_level(level, min_msb))


\* the free list of the level serving a request of bytes bytes holds exactly
\* one block
OnlyBlockAtLevelOf(bytes) ==
    /\ level_for_allocation_request(bytes) <= max_block_level
    /\ free_block_lists[level_for_allocation_request(bytes)] # nullptr
    /\ free_block_lists[level_for_allocation_request(bytes)] \in DOMAIN mem
    /\ mem[free_block_lists[level_for_allocation_request(bytes)]].next = nullptr

\* C26: an allocation served from a free list that holds exactly one block
\* returns that block and leaves the list empty; it does not end in a store
\* through a null pointer.
C26_PopOfOnlyBlockIsSafe ==
    [][(/\ bd_pc = "ready"
        /\ bd_ops' = bd_ops + 1
        /\ \/ bd_last'.outcome = "fault"
           \/ bd_last'.outcome = "returned" /\ Len(outstanding') = Len(outstanding) + 1
        /\ OnlyBlockAtLevelOf(bd_last'.bytes))
       => (/\ bd_last'.outcome = "returned"
           /\ free_block_lists'[level_for_allocation_request(bd_last'.bytes)] = nullptr
           /\ outstanding'[Len(outstanding')].p =
                 data(free_block_lists[level_for_allocation_request(bd_last'.bytes)]))]_vars


\* C27: a request of bytes > 0 whose required size bytes + padding +
\* sizeof(memory_block_info) is at most min_block_size is given level 0 by
\* level_for_allocation_request, in the allocation the constructor makes for
\* the free lists as in the allocations of the user.
C27_SmallRequestsGetLevelZero ==
    /\ (/\ bd_pc # "construct"
        /\ ~InvalidArgument
        /\ block_lists_size + HeaderBytes <= bcfg.min_block_size)
           => level_for_allocation_request(block_lists_size) = 0
    /\ (/\ bd_last.outcome # "none"
        /\ bd_last.bytes + HeaderBytes <= bcfg.min_block_size)
           => level_for_allocation_request(bd_last.bytes) = 0


\* C28: transform_avm terminates: a call that has begun on a map and an
\* occupied list sorted by start, regions of size zero and overlapping
\* regions included, reaches its return.
C28_TransformAvmTerminates ==
    (pl_pc = "avm_desc") ~> (pl_pc = "avm_done")


\* C29: the size and the alignment with which a block is given back to its
\* upstream are those with which it was asked from it: bytes + padding +
\* sizeof(std::size_t) and the alignment of the request.
C29_DeallocateSizeIsAllocateSize ==
    \A k \in 1..Len(dr_log) :
        /\ dr_log[k].size = dr_log[k].block.actual_size
        /\ dr_log[k].alignment = dr_log[k].block.alignment


\* C30: the dynarray constructed from the range of converted descriptors
\* has as many elements as the range, and its i-th element is the i-th
\* element of the range.
C30_DynarrayEqualsRange ==
    conv_pc = "partition" =>
        /\ Len(stage1_descriptors) = Len(uefi_map)
        /\ \A i \in 1..Len(uefi_map) : stage1_descriptors[i] = from_uefi(uefi_map[i])

====
